---- MODULE Spec2Model ----
(***************************************************************************)
(* Cup warmer: the temperature control loop (temp_control.c, pid.c), the   *)
(* timer/appointment scheduler (scheduler.c), the software clock           *)
(* (soft_rtc.c) and the request task that calls their setters              *)
(* (http_server.c), as one state machine.                                  *)
(*                                                                         *)
(* Temperatures are whole degrees Celsius (the code uses float).  The PID  *)
(* output and the heater duty are kept in tenths of a percent, so that the *)
(* gains 2.0 / 0.1 / 0.5 stay exact in integer arithmetic.                 *)
(***************************************************************************)
EXTENDS Integers, Sequences, FiniteSets, TLC

VARIABLES
  \* temp_control.c
  s_power_on, s_target_temp, s_current_temp, s_is_heating, tc_state,
  s_sensor_ok, heater_duty, s_pid, tc_mutex, task_pc, task_temp,
  \* scheduler.c
  s_timer_duration, s_timer_remaining, s_timer_seconds, s_timer_running,
  s_schedule_time, s_schedule_active, sched_state, sched_mutex,
  cb_pc, cb_now_minutes, cb_expired, cb_paused, timeout_handler_calls, ticks,
  \* soft_rtc.c
  s_current_time, s_time_mutex, rtc_ticks,
  \* http_server.c: the request task
  req

tcVars == <<s_power_on, s_target_temp, s_current_temp, s_is_heating, tc_state,
            s_sensor_ok, heater_duty, s_pid, tc_mutex, task_pc, task_temp>>
timerVars == <<s_timer_duration, s_timer_remaining, s_timer_seconds,
               s_timer_running, ticks>>
schedVars == <<s_timer_duration, s_timer_remaining, s_timer_seconds,
               s_timer_running, s_schedule_time, s_schedule_active,
               sched_state, sched_mutex, cb_pc, cb_now_minutes, cb_expired,
               cb_paused, timeout_handler_calls,
               ticks>>
rtcVars == <<s_current_time, s_time_mutex, rtc_ticks>>
vars == <<tcVars, schedVars, rtcVars, req>>

----------------------------------------------------------------------------
(* Program constants *)

CONFIG_TEMP_MIN == 30
CONFIG_TEMP_MAX == 90
CONFIG_TEMP_HARD_LIMIT == 95
CONFIG_PID_KP == 200
CONFIG_PID_KI == 10
CONFIG_PID_KD == 50
CONFIG_MAX_HEATING_TIME_MINUTES == 240
CONFIG_PREHEAT_TIME_MINUTES == 5

\* pid_init: integral_max = 50.0; pid_set_output_limits(&s_pid, 0, 100),
\* the output limits in tenths of a percent
PidIntegralMax == 50
PidOutputMin == 0
PidOutputMax == 1000
\* output > 5.0f, in tenths of a percent
HeatingThreshold == 50
\* the value read_ntc_temperature returns on a sensor fault (-999.0f)
SensorFault == -999
DefaultTargetTemp == 55
DefaultCurrentTemp == 25
DefaultTimerDuration == 60
MinutesPerDay == 1440
\* the value of the callback's now_minutes before it is computed
Unread == -2

----------------------------------------------------------------------------
(* Bounds of the model *)

\* scheduler callbacks explored after a countdown was (re)started, in Spec
MaxTicks == 1
\* clock callbacks explored after the clock was last set, in Spec
MaxRtcTicks == 1
\* longest timer duration a request asks for, in SpecCountdown
MaxDuration == 2

----------------------------------------------------------------------------
(* pid.c *)

PidInit == [setpoint |-> 0, integral |-> 0, prev_error |-> 0]

pid_set_setpoint(pid, sp) == [pid EXCEPT !.setpoint = sp]

pid_reset(pid) == [pid EXCEPT !.integral = 0, !.prev_error = 0]

\* the anti-windup clamp with its lower limit left out
ClampIntegral_upper_only(i) ==
  IF i > PidIntegralMax THEN PidIntegralMax ELSE i

\* the anti-windup clamp of pid_compute
ClampIntegral(i) ==
  IF i > PidIntegralMax THEN PidIntegralMax
  ELSE IF i < -PidIntegralMax THEN -PidIntegralMax
  ELSE i

\* the output clamp with its lower limit left out
ClampOutput_upper_only(o) ==
  IF o > PidOutputMax THEN PidOutputMax ELSE o

\* the output clamp of pid_compute
ClampOutput(o) ==
  IF o > PidOutputMax THEN PidOutputMax
  ELSE IF o < PidOutputMin THEN PidOutputMin
  ELSE o

\* pid_compute: the new controller state and the output (tenths of a percent).
\* kp = KP/100, ki = KI/100, kd = KD/100; the terms are summed in tenths.
pid_compute(pid, current) ==
  LET error == pid.setpoint - current
      integral == ClampIntegral(pid.integral + error)
      sum == CONFIG_PID_KP * error + CONFIG_PID_KI * integral
             + CONFIG_PID_KD * (error - pid.prev_error)
  IN  [pid |-> [pid EXCEPT !.integral = integral, !.prev_error = error],
       output |-> ClampOutput(sum \div 10)]

----------------------------------------------------------------------------
(* scheduler.c: the schedule time string *)

Digits == <<"0", "1", "2", "3", "4", "5", "6", "7", "8", "9">>

IsDigit(c) == \E d \in 1..10 : Digits[d] = c

DigitVal(c) == (CHOOSE d \in 1..10 : Digits[d] = c) - 1

IsSpace(c) == c = " "

\* sscanf skips white space before a %d conversion
RECURSIVE SkipSpace(_, _)
SkipSpace(s, i) ==
  IF i <= Len(s) /\ IsSpace(s[i]) THEN SkipSpace(s, i + 1) ELSE i

\* the digits of a %d conversion from position i with value v so far
RECURSIVE ScanDigits(_, _, _)
ScanDigits(s, i, v) ==
  IF i <= Len(s) /\ IsDigit(s[i])
  THEN ScanDigits(s, i + 1, 10 * v + DigitVal(s[i]))
  ELSE [val |-> v, next |-> i]

\* one %d conversion of sscanf: white space, an optional sign, digits
ScanInt(s, i) ==
  LET j == SkipSpace(s, i)
      signed == j <= Len(s) /\ s[j] \in {"-", "+"}
      k == IF signed THEN j + 1 ELSE j
      d == ScanDigits(s, k, 0)
  IN  IF d.next = k
      THEN [ok |-> FALSE, val |-> 0, next |-> i]
      ELSE [ok |-> TRUE,
            val |-> IF signed /\ s[j] = "-" THEN -d.val ELSE d.val,
            next |-> d.next]

\* parse_schedule_time: sscanf(time_str, "%d:%d") and the range check
parse_schedule_time(s) ==
  LET h == ScanInt(s, 1)
      colon == h.ok /\ h.next <= Len(s) /\ s[h.next] = ":"
      m == IF colon THEN ScanInt(s, h.next + 1)
           ELSE [ok |-> FALSE, val |-> 0, next |-> 0]
  IN  IF Len(s) >= 5 /\ h.ok /\ colon /\ m.ok
         /\ h.val >= 0 /\ h.val <= 23 /\ m.val >= 0 /\ m.val <= 59
      THEN [ok |-> TRUE, hour |-> h.val, minute |-> m.val]
      ELSE [ok |-> FALSE, hour |-> 0, minute |-> 0]

\* snprintf(s_schedule_time, 8, "%02d:%02d", hour, minute) for a valid time
FormatTime(h, m) ==
  <<Digits[(h \div 10) + 1], Digits[(h % 10) + 1], ":",
    Digits[(m \div 10) + 1], Digits[(m % 10) + 1]>>

\* the start minute without the step over midnight
StartMinutes_no_wrap(sched_hour, sched_minute) ==
  sched_hour * 60 + sched_minute - CONFIG_PREHEAT_TIME_MINUTES

\* the minute of the day at which the appointment starts heating
StartMinutes(sched_hour, sched_minute) ==
  LET sched_minutes == sched_hour * 60 + sched_minute
      start_minutes == sched_minutes - CONFIG_PREHEAT_TIME_MINUTES
  IN  IF start_minutes < 0 THEN start_minutes + 24 * 60 ELSE start_minutes

\* now.hour * 60 + now.minute
NowMinutes(now) == now.hour * 60 + now.minute

\* the comparison with >= in the place of ==
ShouldStart_at_or_after(now_minutes, start_minutes) ==
  now_minutes >= start_minutes

\* the comparison that decides the trigger
ShouldStart(now_minutes, start_minutes) == now_minutes = start_minutes

\* the minutes rounded down
CeilMinutes_floor(seconds) == seconds \div 60

\* (s_timer_seconds + 59) / 60
CeilMinutes(seconds) == (seconds + 59) \div 60

----------------------------------------------------------------------------
(* temp_control.c: the control task *)

\* set_heater_duty: the duty is clamped to 0..100 percent
set_heater_duty(duty) ==
  IF duty < 0 THEN 0 ELSE IF duty > PidOutputMax THEN PidOutputMax ELSE duty

\* the safety test with > in the place of >=
HardLimitReached_above(temp) == temp > CONFIG_TEMP_HARD_LIMIT

\* the safety test of temp_control_task
HardLimitReached(temp) == temp >= CONFIG_TEMP_HARD_LIMIT

\* any output above zero counted as heating
IsHeatingOutput_positive(output) == output > 0

\* output > 5.0f
IsHeatingOutput(output) == output > HeatingThreshold

\* read_ntc_temperature with a fault that stays until it is reset by hand
TaskReadNtc_latched(readings) ==
  /\ task_pc = "read"
  /\ \E r \in readings :
       /\ s_sensor_ok' = (s_sensor_ok /\ r # SensorFault)
       /\ task_temp' = r
  /\ task_pc' = "take"
  /\ UNCHANGED <<s_power_on, s_target_temp, s_current_temp, s_is_heating,
                 tc_state, heater_duty, s_pid, tc_mutex>>
  /\ UNCHANGED <<schedVars, rtcVars, req>>

\* read_ntc_temperature: the ADC reading decides s_sensor_ok, outside the mutex
TaskReadNtc(readings) ==
  /\ task_pc = "read"
  /\ \E r \in readings :
       /\ s_sensor_ok' = (r # SensorFault)
       /\ task_temp' = r
  /\ task_pc' = "take"
  /\ UNCHANGED <<s_power_on, s_target_temp, s_current_temp, s_is_heating,
                 tc_state, heater_duty, s_pid, tc_mutex>>
  /\ UNCHANGED <<schedVars, rtcVars, req>>

\* xSemaphoreTake(s_mutex, portMAX_DELAY) of temp_control_task finds the
\* mutex held: the task is blocked until the mutex is given
TaskBlocked ==
  /\ task_pc = "take"
  /\ tc_mutex # "free"
  /\ task_pc' = "blocked"
  /\ UNCHANGED <<s_power_on, s_target_temp, s_current_temp, s_is_heating,
                 tc_state, s_sensor_ok, heater_duty, s_pid, tc_mutex,
                 task_temp>>
  /\ UNCHANGED <<schedVars, rtcVars, req>>

\* xSemaphoreTake(s_mutex, portMAX_DELAY) of temp_control_task returns, at
\* once or after the task was blocked
TaskTakeMutex ==
  /\ task_pc \in {"take", "blocked"}
  /\ tc_mutex = "free"
  /\ tc_mutex' = "task"
  /\ task_pc' = "tick"
  /\ UNCHANGED <<s_power_on, s_target_temp, s_current_temp, s_is_heating,
                 tc_state, s_sensor_ok, heater_duty, s_pid, task_temp>>
  /\ UNCHANGED <<schedVars, rtcVars, req>>

\* the temperature the tick works with: the reading if the sensor is ok,
\* else the last good one
TickTemp == IF s_sensor_ok THEN task_temp ELSE s_current_temp

\* the branch the tick body takes
TickBranch ==
  IF HardLimitReached(TickTemp) THEN "shutoff"
  ELSE IF ~s_sensor_ok THEN "sensor_error"
  ELSE IF s_power_on THEN "control"
  ELSE "off"

\* the safety shutoff: the temperature is at or above the hard limit
TickShutoff ==
  /\ s_power_on' = FALSE
  /\ s_is_heating' = FALSE
  /\ tc_state' = "IDLE"
  /\ heater_duty' = set_heater_duty(0)
  /\ UNCHANGED s_pid

\* the NTC protection: the sensor is not ok
TickSensorError ==
  /\ s_is_heating' = FALSE
  /\ tc_state' = "ERROR"
  /\ heater_duty' = set_heater_duty(0)
  /\ UNCHANGED <<s_power_on, s_pid>>

\* the control law with power on
TickControl ==
  LET r == pid_compute(pid_set_setpoint(s_pid, s_target_temp), TickTemp)
  IN  /\ s_pid' = r.pid
      /\ heater_duty' = set_heater_duty(r.output)
      /\ s_is_heating' = IsHeatingOutput(r.output)
      /\ tc_state' = IF IsHeatingOutput(r.output) THEN "HEATING" ELSE "KEEPING"
      /\ UNCHANGED s_power_on

\* power off, with the mode left as it was
TickOff_keeps_mode ==
  /\ heater_duty' = set_heater_duty(0)
  /\ s_is_heating' = FALSE
  /\ s_pid' = pid_reset(s_pid)
  /\ UNCHANGED <<s_power_on, tc_state>>

\* power off
TickOff ==
  /\ heater_duty' = set_heater_duty(0)
  /\ s_is_heating' = FALSE
  /\ tc_state' = "IDLE"
  /\ s_pid' = pid_reset(s_pid)
  /\ UNCHANGED s_power_on

\* the body of the control loop, from the take of the mutex to its give
TaskTick ==
  /\ task_pc = "tick"
  /\ s_current_temp' = TickTemp
  /\ CASE TickBranch = "shutoff" -> TickShutoff
       [] TickBranch = "sensor_error" -> TickSensorError
       [] TickBranch = "control" -> TickControl
       [] TickBranch = "off" -> TickOff
  /\ tc_mutex' = "free"
  /\ task_pc' = "read"
  /\ UNCHANGED <<s_target_temp, s_sensor_ok, task_temp>>
  /\ UNCHANGED <<schedVars, rtcVars, req>>

\* temp_control_set_power driving the heater at once when power is set
set_power_body_drives(on) ==
  /\ s_power_on' = on
  /\ heater_duty' = set_heater_duty(IF on THEN PidOutputMax ELSE 0)
  /\ IF ~on THEN s_pid' = pid_reset(s_pid) ELSE UNCHANGED s_pid

\* temp_control_set_power writing the flag only
set_power_body_flag_only(on) ==
  /\ s_power_on' = on
  /\ UNCHANGED <<heater_duty, s_pid>>

\* temp_control_set_power between the take and the give of the mutex
set_power_body(on) ==
  /\ s_power_on' = on
  /\ IF ~on
     THEN /\ heater_duty' = set_heater_duty(0)
          /\ s_pid' = pid_reset(s_pid)
     ELSE UNCHANGED <<heater_duty, s_pid>>

\* the clamp of temp_control_set_target_temp without its upper limit
ClampTargetTemp_no_upper(temp) ==
  IF temp < CONFIG_TEMP_MIN THEN CONFIG_TEMP_MIN ELSE temp

\* temp_control_set_target_temp: the clamp, before the mutex is taken
ClampTargetTemp(temp) ==
  IF temp < CONFIG_TEMP_MIN THEN CONFIG_TEMP_MIN
  ELSE IF temp > CONFIG_TEMP_MAX THEN CONFIG_TEMP_MAX
  ELSE temp

----------------------------------------------------------------------------
(* scheduler.c: the 1 s timer callback, run by the esp_timer task *)

\* xSemaphoreTake(s_mutex, 0) succeeds.  horizon bounds the callbacks
\* explored after a countdown was started.
CbTryLock(horizon) ==
  /\ cb_pc = "idle"
  /\ ticks < horizon
  /\ sched_mutex = "free"
  /\ sched_mutex' = "timer"
  /\ cb_pc' = "countdown"
  /\ UNCHANGED <<timerVars, s_schedule_time, s_schedule_active, sched_state,
                 cb_now_minutes, cb_expired,
                 cb_paused, timeout_handler_calls>>
  /\ UNCHANGED <<tcVars, rtcVars, req>>

\* xSemaphoreTake(s_mutex, 0) fails: the callback returns at once
CbSkip(horizon) ==
  /\ cb_pc = "idle"
  /\ ticks < horizon
  /\ sched_mutex # "free"
  /\ UNCHANGED vars

\* the countdown has reached zero, with the power-off request left out
cb_expire_keeps_power ==
  /\ s_timer_running' = FALSE
  /\ s_timer_remaining' = 0
  /\ sched_state' = "TIMEOUT"
  /\ cb_expired' = TRUE
  /\ cb_pc' = "appointment"

\* the countdown has reached zero: the fields written before the call of
\* temp_control_set_power(false)
cb_expire ==
  /\ s_timer_running' = FALSE
  /\ s_timer_remaining' = 0
  /\ sched_state' = "TIMEOUT"
  /\ cb_expired' = TRUE
  /\ cb_pc' = "power_off"

\* the countdown runs with power on only, with the test of the power left out
CountdownActive_any_power == s_timer_running

\* the guard of the countdown
CountdownActive == s_timer_running /\ s_power_on

\* the countdown, up to the call of temp_control_set_power(false)
CbCountdown ==
  /\ cb_pc = "countdown"
  /\ cb_paused' = (s_timer_running /\ ~s_power_on)
  /\ IF CountdownActive
     THEN /\ s_timer_seconds' = s_timer_seconds - 1
          /\ ticks' = ticks + 1
          /\ IF s_timer_seconds - 1 <= 0
             THEN cb_expire
             ELSE /\ s_timer_remaining' = CeilMinutes(s_timer_seconds - 1)
                  /\ cb_pc' = "appointment"
                  /\ UNCHANGED <<s_timer_running, sched_state, cb_expired>>
     ELSE /\ cb_pc' = "appointment"
          /\ UNCHANGED <<s_timer_seconds, s_timer_running, s_timer_remaining,
                         sched_state, ticks, cb_expired>>
  /\ UNCHANGED <<s_timer_duration, s_schedule_time, s_schedule_active,
                 sched_mutex, cb_now_minutes, timeout_handler_calls>>
  /\ UNCHANGED <<tcVars, rtcVars, req>>

\* if (s_timeout_callback) s_timeout_callback(), left out
invoke_timeout_callback_never == UNCHANGED timeout_handler_calls

\* if (s_timeout_callback) s_timeout_callback(): main.c has registered
\* timer_timeout_handler
invoke_timeout_callback == timeout_handler_calls' = timeout_handler_calls + 1

\* temp_control_set_power called from the callback (false on expiry, followed
\* by the timeout callback; true on an appointment trigger): it waits for
\* the control loop's mutex with the scheduler's mutex held
CbSetPower ==
  /\ cb_pc \in {"power_off", "power_on"}
  /\ tc_mutex = "free"
  /\ set_power_body(cb_pc = "power_on")
  /\ IF cb_pc = "power_off"
     THEN invoke_timeout_callback
     ELSE UNCHANGED timeout_handler_calls
  /\ cb_pc' = IF cb_pc = "power_on" THEN "trigger" ELSE "appointment"
  /\ UNCHANGED <<s_target_temp, s_current_temp, s_is_heating, tc_state,
                 s_sensor_ok, tc_mutex, task_pc, task_temp>>
  /\ UNCHANGED <<timerVars, s_schedule_time, s_schedule_active, sched_state,
                 sched_mutex, cb_now_minutes, cb_expired, cb_paused>>
  /\ UNCHANGED <<rtcVars, req>>

\* the guard of the appointment check without the test of the power
AppointmentDue_any_power == s_schedule_active

\* the guard of the appointment check
AppointmentDue == s_schedule_active /\ ~s_power_on

\* the appointment check up to the read of the clock; without an armed
\* appointment, with power on or with an unparsable time nothing is done
CbAppointment ==
  /\ cb_pc = "appointment"
  /\ cb_pc' = IF AppointmentDue /\ parse_schedule_time(s_schedule_time).ok
              THEN "clock" ELSE "give"
  /\ UNCHANGED <<timerVars, s_schedule_time, s_schedule_active, sched_state,
                 sched_mutex, cb_now_minutes, cb_expired,
                 cb_paused, timeout_handler_calls>>
  /\ UNCHANGED <<tcVars, rtcVars, req>>

\* the comparison of now_minutes with the start minute
cb_compare(now_minutes) ==
  LET t == parse_schedule_time(s_schedule_time)
  IN  /\ cb_now_minutes' = now_minutes
      /\ cb_pc' = IF ShouldStart(now_minutes, StartMinutes(t.hour, t.minute))
                  THEN "power_on" ELSE "give"
      /\ UNCHANGED <<timerVars, s_schedule_time, s_schedule_active,
                     sched_state, sched_mutex, cb_expired,
                     cb_paused, timeout_handler_calls>>
      /\ UNCHANGED <<tcVars, rtcVars, req>>

\* soft_rtc_get_time obtains the clock's mutex and copies the time
CbGetTime ==
  /\ cb_pc = "clock"
  /\ s_time_mutex = "free"
  /\ cb_compare(NowMinutes(s_current_time))

\* what an unwritten rtc_time_t can hold, as far as the comparison can tell
UninitializedMinutes ==
  LET t == parse_schedule_time(s_schedule_time)
  IN  {StartMinutes(t.hour, t.minute), -1}

\* soft_rtc_get_time gives up after 100 ms while the mutex is held; the
\* return value is ignored and now is read without having been written
CbGetTimeTimeout ==
  /\ cb_pc = "clock"
  /\ s_time_mutex # "free"
  /\ \E garbage \in UninitializedMinutes : cb_compare(garbage)

\* the trigger after temp_control_set_power(true)
CbTrigger ==
  /\ cb_pc = "trigger"
  /\ s_schedule_active' = FALSE
  /\ s_timer_running' = TRUE
  /\ s_timer_seconds' = s_timer_duration * 60
  /\ s_timer_remaining' = s_timer_duration
  /\ sched_state' = "TIMER_RUNNING"
  /\ ticks' = 0
  /\ cb_pc' = "give"
  /\ UNCHANGED <<s_timer_duration, s_schedule_time, sched_mutex,
                 cb_now_minutes, cb_expired,
                 cb_paused, timeout_handler_calls>>
  /\ UNCHANGED <<tcVars, rtcVars, req>>

\* the return of the callback without xSemaphoreGive(s_mutex)
CbGive_no_give ==
  /\ cb_pc = "give"
  /\ cb_pc' = "idle"
  /\ cb_now_minutes' = Unread
  /\ cb_expired' = FALSE
  /\ cb_paused' = FALSE
  /\ timeout_handler_calls' = 0
  /\ UNCHANGED <<timerVars, s_schedule_time, s_schedule_active, sched_state,
                 sched_mutex>>
  /\ UNCHANGED <<tcVars, rtcVars, req>>

\* xSemaphoreGive(s_mutex) and the return of the callback
CbGive ==
  /\ cb_pc = "give"
  /\ cb_pc' = "idle"
  /\ sched_mutex' = "free"
  /\ cb_now_minutes' = Unread
  /\ cb_expired' = FALSE
  /\ cb_paused' = FALSE
  /\ timeout_handler_calls' = 0
  /\ UNCHANGED <<timerVars, s_schedule_time, s_schedule_active, sched_state>>
  /\ UNCHANGED <<tcVars, rtcVars, req>>

----------------------------------------------------------------------------
(* soft_rtc.c *)

\* the carries of rtc_timer_callback (the date is not modelled)
AdvanceSecond(t) ==
  IF t.second + 1 < 60 THEN [t EXCEPT !.second = t.second + 1]
  ELSE IF t.minute + 1 < 60 THEN [t EXCEPT !.second = 0, !.minute = t.minute + 1]
  ELSE IF t.hour + 1 < 24
       THEN [t EXCEPT !.second = 0, !.minute = 0, !.hour = t.hour + 1]
  ELSE [t EXCEPT !.second = 0, !.minute = 0, !.hour = 0]

\* rtc_timer_callback, run by the esp_timer task between scheduler callbacks:
\* a second is added unless the mutex is held
RtcTick ==
  /\ cb_pc = "idle"
  /\ rtc_ticks < MaxRtcTicks
  /\ IF s_time_mutex = "free"
     THEN /\ s_current_time' = AdvanceSecond(s_current_time)
          /\ rtc_ticks' = rtc_ticks + 1
     ELSE UNCHANGED <<s_current_time, rtc_ticks>>
  /\ UNCHANGED s_time_mutex
  /\ UNCHANGED <<tcVars, schedVars, req>>

----------------------------------------------------------------------------
(* http_server.c: the request task calling the setters.  A call is taken up *)
(* when its mutex is obtained (ReqTake) and ends with the give (ReqReturn). *)

NoReq == [op |-> "none"]

\* the clamp with 0 as its lower limit
ClampDuration_floor_zero(minutes) ==
  IF minutes < 0 THEN 0
  ELSE IF minutes > CONFIG_MAX_HEATING_TIME_MINUTES
       THEN CONFIG_MAX_HEATING_TIME_MINUTES
  ELSE minutes

\* the clamp letting the minute after the maximum through
ClampDuration_above_max(minutes) ==
  IF minutes < 1 THEN 1
  ELSE IF minutes > CONFIG_MAX_HEATING_TIME_MINUTES + 1
       THEN CONFIG_MAX_HEATING_TIME_MINUTES
  ELSE minutes

\* scheduler_set_timer_duration: the clamp, before the mutex is taken
ClampDuration(minutes) ==
  IF minutes < 1 THEN 1
  ELSE IF minutes > CONFIG_MAX_HEATING_TIME_MINUTES
       THEN CONFIG_MAX_HEATING_TIME_MINUTES
  ELSE minutes

\* the calls of control_post_handler and sync_time_post_handler and of the
\* other public setters, with the arguments as they are after the checks
\* each setter makes before it takes its mutex
SetPowerCalls(values) == {[op |-> "set_power", arg |-> on] : on \in values}

SetTargetTempCalls(temps) ==
  {[op |-> "set_target_temp", given |-> t, arg |-> ClampTargetTemp(t)] :
     t \in temps}

SetTimerDurationCalls(minutes) ==
  {[op |-> "set_timer_duration", given |-> m, arg |-> ClampDuration(m)] :
     m \in minutes}

\* scheduler_set_schedule_time returns before the mutex for an invalid string
SetScheduleTimeCalls(strings) ==
  {[op |-> "set_schedule_time", given |-> str,
    arg |-> parse_schedule_time(str)] :
     str \in {x \in strings : parse_schedule_time(x).ok}}

TimerCalls(ops) == {[op |-> o] : o \in ops}

SetTimeCalls(times) == {[op |-> "set_time", arg |-> t] : t \in times}

\* scheduler_set_schedule_time with a string parse_schedule_time refuses: a
\* warning is logged and the call returns, before the mutex, with nothing
\* for the caller (the function is void)
ReqRejected(strings) ==
  /\ req.op = "none"
  /\ \E str \in strings : ~parse_schedule_time(str).ok
  /\ UNCHANGED vars

\* the mutex a call takes
LockOf(op) ==
  IF op \in {"set_power", "set_target_temp"} THEN "tc"
  ELSE IF op = "set_time" THEN "rtc"
  ELSE "sched"

\* the call's xSemaphoreTake returns
ReqTake(calls) ==
  /\ req.op = "none"
  /\ \E c \in calls :
       /\ req' = c
       /\ CASE LockOf(c.op) = "tc" ->
                 /\ tc_mutex = "free"
                 /\ tc_mutex' = "req"
                 /\ UNCHANGED <<sched_mutex, s_time_mutex>>
            [] LockOf(c.op) = "sched" ->
                 /\ sched_mutex = "free"
                 /\ sched_mutex' = "req"
                 /\ UNCHANGED <<tc_mutex, s_time_mutex>>
            [] LockOf(c.op) = "rtc" ->
                 /\ s_time_mutex = "free"
                 /\ s_time_mutex' = "req"
                 /\ UNCHANGED <<tc_mutex, sched_mutex>>
  /\ UNCHANGED <<s_power_on, s_target_temp, s_current_temp, s_is_heating,
                 tc_state, s_sensor_ok, heater_duty, s_pid, task_pc, task_temp>>
  /\ UNCHANGED <<timerVars, s_schedule_time, s_schedule_active, sched_state,
                 cb_pc, cb_now_minutes, cb_expired,
                 cb_paused, timeout_handler_calls>>
  /\ UNCHANGED <<s_current_time, rtc_ticks>>

\* a setter is called and reaches its xSemaphoreTake(s_mutex, portMAX_DELAY)
ReqCall(calls) ==
  /\ req.op = "none"
  /\ \E c \in calls : req' = [op |-> "wait", call |-> c, overdue |-> FALSE]
  /\ UNCHANGED <<tcVars, schedVars, rtcVars>>

\* the mutex the waiting call is after is held
LockHeld(op) ==
  CASE LockOf(op) = "tc" -> tc_mutex # "free"
    [] LockOf(op) = "sched" -> sched_mutex # "free"
    [] LockOf(op) = "rtc" -> s_time_mutex # "free"

\* the caller stays blocked in xSemaphoreTake while the mutex is held,
\* however long: portMAX_DELAY never runs out.  overdue records that it has
\* been blocked for longer than any bound a caller could have been given
ReqBlocked ==
  /\ req.op = "wait"
  /\ LockHeld(req.call.op)
  /\ req' = [req EXCEPT !.overdue = TRUE]
  /\ UNCHANGED <<tcVars, schedVars, rtcVars>>

\* the waiting call's xSemaphoreTake returns with the mutex
ReqObtain ==
  /\ req.op = "wait"
  /\ ~LockHeld(req.call.op)
  /\ req' = req.call
  /\ CASE LockOf(req.call.op) = "tc" ->
            /\ tc_mutex' = "req"
            /\ UNCHANGED <<sched_mutex, s_time_mutex>>
       [] LockOf(req.call.op) = "sched" ->
            /\ sched_mutex' = "req"
            /\ UNCHANGED <<tc_mutex, s_time_mutex>>
       [] LockOf(req.call.op) = "rtc" ->
            /\ s_time_mutex' = "req"
            /\ UNCHANGED <<tc_mutex, sched_mutex>>
  /\ UNCHANGED <<s_power_on, s_target_temp, s_current_temp, s_is_heating,
                 tc_state, s_sensor_ok, heater_duty, s_pid, task_pc, task_temp>>
  /\ UNCHANGED <<timerVars, s_schedule_time, s_schedule_active, sched_state,
                 cb_pc, cb_now_minutes, cb_expired,
                 cb_paused, timeout_handler_calls>>
  /\ UNCHANGED <<s_current_time, rtc_ticks>>

\* temp_control_set_power
set_power ==
  /\ set_power_body(req.arg)
  /\ tc_mutex' = "free"
  /\ UNCHANGED <<s_target_temp, s_current_temp, s_is_heating, tc_state,
                 s_sensor_ok, task_pc, task_temp>>
  /\ UNCHANGED <<schedVars, rtcVars>>

\* temp_control_set_target_temp
set_target_temp ==
  /\ s_target_temp' = req.arg
  /\ tc_mutex' = "free"
  /\ UNCHANGED <<s_power_on, s_current_temp, s_is_heating, tc_state,
                 s_sensor_ok, heater_duty, s_pid, task_pc, task_temp>>
  /\ UNCHANGED <<schedVars, rtcVars>>

\* scheduler_set_timer_duration storing the duration only
set_timer_duration_deferred ==
  /\ s_timer_duration' = req.arg
  /\ sched_mutex' = "free"
  /\ UNCHANGED <<s_timer_seconds, s_timer_remaining, s_timer_running,
                 sched_state, ticks>>
  /\ UNCHANGED <<s_schedule_time, s_schedule_active, cb_pc,
                 cb_now_minutes, cb_expired, cb_paused, timeout_handler_calls>>
  /\ UNCHANGED <<tcVars, rtcVars>>

\* scheduler_set_timer_duration restarting the countdown whatever the power
set_timer_duration_always_resets ==
  /\ s_timer_duration' = req.arg
  /\ s_timer_seconds' = req.arg * 60
  /\ s_timer_remaining' = req.arg
  /\ s_timer_running' = TRUE
  /\ sched_state' = "TIMER_RUNNING"
  /\ ticks' = 0
  /\ sched_mutex' = "free"
  /\ UNCHANGED <<s_schedule_time, s_schedule_active, cb_pc,
                 cb_now_minutes, cb_expired, cb_paused, timeout_handler_calls>>
  /\ UNCHANGED <<tcVars, rtcVars>>

\* scheduler_set_timer_duration
set_timer_duration ==
  /\ s_timer_duration' = req.arg
  /\ IF s_power_on
     THEN /\ s_timer_seconds' = req.arg * 60
          /\ s_timer_remaining' = req.arg
          /\ s_timer_running' = TRUE
          /\ sched_state' = "TIMER_RUNNING"
          /\ ticks' = 0
     ELSE UNCHANGED <<s_timer_seconds, s_timer_remaining, s_timer_running,
                      sched_state, ticks>>
  /\ sched_mutex' = "free"
  /\ UNCHANGED <<s_schedule_time, s_schedule_active, cb_pc,
                 cb_now_minutes, cb_expired, cb_paused, timeout_handler_calls>>
  /\ UNCHANGED <<tcVars, rtcVars>>

\* scheduler_set_schedule_time
set_schedule_time ==
  /\ s_schedule_time' = FormatTime(req.arg.hour, req.arg.minute)
  /\ s_schedule_active' = TRUE
  /\ sched_state' = "SCHEDULED"
  /\ sched_mutex' = "free"
  /\ UNCHANGED <<timerVars, cb_pc, cb_now_minutes, cb_expired,
                 cb_paused, timeout_handler_calls>>
  /\ UNCHANGED <<tcVars, rtcVars>>

\* scheduler_cancel_schedule going to IDLE from every mode
cancel_schedule_always_idle ==
  /\ s_schedule_active' = FALSE
  /\ s_schedule_time' = <<>>
  /\ sched_state' = "IDLE"
  /\ sched_mutex' = "free"
  /\ UNCHANGED <<timerVars, cb_pc, cb_now_minutes, cb_expired,
                 cb_paused, timeout_handler_calls>>
  /\ UNCHANGED <<tcVars, rtcVars>>

\* scheduler_cancel_schedule leaving the mode as it is
cancel_schedule_keeps_mode ==
  /\ s_schedule_active' = FALSE
  /\ s_schedule_time' = <<>>
  /\ sched_mutex' = "free"
  /\ UNCHANGED <<timerVars, sched_state, cb_pc, cb_now_minutes, cb_expired,
                 cb_paused, timeout_handler_calls>>
  /\ UNCHANGED <<tcVars, rtcVars>>

\* scheduler_cancel_schedule
cancel_schedule ==
  /\ s_schedule_active' = FALSE
  /\ s_schedule_time' = <<>>
  /\ sched_state' = IF sched_state = "SCHEDULED" THEN "IDLE" ELSE sched_state
  /\ sched_mutex' = "free"
  /\ UNCHANGED <<timerVars, cb_pc, cb_now_minutes, cb_expired,
                 cb_paused, timeout_handler_calls>>
  /\ UNCHANGED <<tcVars, rtcVars>>

\* scheduler_start_timer
start_timer ==
  /\ s_timer_running' = TRUE
  /\ s_timer_seconds' = s_timer_duration * 60
  /\ s_timer_remaining' = s_timer_duration
  /\ sched_state' = "TIMER_RUNNING"
  /\ ticks' = 0
  /\ sched_mutex' = "free"
  /\ UNCHANGED <<s_timer_duration, s_schedule_time, s_schedule_active, cb_pc,
                 cb_now_minutes, cb_expired,
                 cb_paused, timeout_handler_calls>>
  /\ UNCHANGED <<tcVars, rtcVars>>

\* scheduler_stop_timer going to IDLE from every mode
stop_timer_always_idle ==
  /\ s_timer_running' = FALSE
  /\ s_timer_seconds' = 0
  /\ s_timer_remaining' = 0
  /\ sched_state' = "IDLE"
  /\ ticks' = 0
  /\ sched_mutex' = "free"
  /\ UNCHANGED <<s_timer_duration, s_schedule_time, s_schedule_active, cb_pc,
                 cb_now_minutes, cb_expired,
                 cb_paused, timeout_handler_calls>>
  /\ UNCHANGED <<tcVars, rtcVars>>

\* scheduler_stop_timer
stop_timer ==
  /\ s_timer_running' = FALSE
  /\ s_timer_seconds' = 0
  /\ s_timer_remaining' = 0
  /\ sched_state' = IF sched_state \in {"TIMER_RUNNING", "TIMEOUT"}
                    THEN "IDLE" ELSE sched_state
  /\ ticks' = 0
  /\ sched_mutex' = "free"
  /\ UNCHANGED <<s_timer_duration, s_schedule_time, s_schedule_active, cb_pc,
                 cb_now_minutes, cb_expired,
                 cb_paused, timeout_handler_calls>>
  /\ UNCHANGED <<tcVars, rtcVars>>

\* soft_rtc_set_time
set_time ==
  /\ s_current_time' = req.arg
  /\ rtc_ticks' = 0
  /\ s_time_mutex' = "free"
  /\ UNCHANGED <<tcVars, schedVars>>

\* the call's body and its xSemaphoreGive
ReqReturn ==
  /\ req.op \notin {"none", "status", "wait"}
  /\ req' = NoReq
  /\ CASE req.op = "set_power" -> set_power
       [] req.op = "set_target_temp" -> set_target_temp
       [] req.op = "set_timer_duration" -> set_timer_duration
       [] req.op = "set_schedule_time" -> set_schedule_time
       [] req.op = "cancel_schedule" -> cancel_schedule
       [] req.op = "start_timer" -> start_timer
       [] req.op = "stop_timer" -> stop_timer
       [] req.op = "set_time" -> set_time

----------------------------------------------------------------------------
(* http_server.c: status_get_handler, run by the same request task.  It     *)
(* collects the status field by field through the accessors; req holds the  *)
(* handler's locals and the accessor it calls next.                         *)

\* the order of the handler's reads
StatusOrder ==
  <<"current_temp", "target_temp", "is_heating", "esp_time",
    "timer_remaining", "schedule_time", "respond">>

StatusNextPc(pc) ==
  StatusOrder[1 + CHOOSE i \in 1..(Len(StatusOrder) - 1) : StatusOrder[i] = pc]

\* the handler is entered; its locals hold nothing yet
StatusGet ==
  /\ req.op = "none"
  /\ req' = [op |-> "status", pc |-> "current_temp", current_temp |-> 0,
             target_temp |-> 0, is_heating |-> FALSE, esp_time |-> Unread,
             timer_remaining |-> 0, schedule_time |-> <<>>]
  /\ UNCHANGED <<tcVars, schedVars, rtcVars>>

\* one accessor call.  temp_control_get_current_temp, _get_target_temp,
\* _is_heating and scheduler_get_timer_remaining return the field without
\* the mutex; soft_rtc_get_time and scheduler_get_schedule_time copy under
\* the mutex of their module
StatusRead ==
  /\ req.op = "status"
  /\ req.pc # "respond"
  /\ CASE req.pc = "current_temp" ->
            req' = [req EXCEPT !.current_temp = s_current_temp,
                               !.pc = StatusNextPc(req.pc)]
       [] req.pc = "target_temp" ->
            req' = [req EXCEPT !.target_temp = s_target_temp,
                               !.pc = StatusNextPc(req.pc)]
       [] req.pc = "is_heating" ->
            req' = [req EXCEPT !.is_heating = s_is_heating,
                               !.pc = StatusNextPc(req.pc)]
       [] req.pc = "esp_time" ->
            /\ s_time_mutex = "free"
            /\ req' = [req EXCEPT !.esp_time = NowMinutes(s_current_time),
                                  !.pc = StatusNextPc(req.pc)]
       [] req.pc = "timer_remaining" ->
            req' = [req EXCEPT !.timer_remaining = s_timer_remaining,
                               !.pc = StatusNextPc(req.pc)]
       [] req.pc = "schedule_time" ->
            /\ sched_mutex = "free"
            /\ req' = [req EXCEPT !.schedule_time = s_schedule_time,
                                  !.pc = StatusNextPc(req.pc)]
  /\ UNCHANGED <<tcVars, schedVars, rtcVars>>

\* the response is built from the locals and sent
StatusRespond ==
  /\ req.op = "status"
  /\ req.pc = "respond"
  /\ req' = NoReq
  /\ UNCHANGED <<tcVars, schedVars, rtcVars>>

----------------------------------------------------------------------------
(* The system *)

\* temp_control.c after temp_control_init
InitTempControl ==
  /\ s_power_on = FALSE
  /\ s_target_temp = DefaultTargetTemp
  /\ s_current_temp = DefaultCurrentTemp
  /\ s_is_heating = FALSE
  /\ tc_state = "IDLE"
  /\ s_sensor_ok = TRUE
  /\ heater_duty = 0
  /\ s_pid = PidInit
  /\ tc_mutex = "free"
  /\ task_pc = "read"
  /\ task_temp = DefaultCurrentTemp

\* the countdown of scheduler.c after scheduler_init
InitTimer(duration) ==
  /\ s_timer_duration = duration
  /\ s_timer_remaining = 0
  /\ s_timer_seconds = 0
  /\ s_timer_running = FALSE
  /\ sched_mutex = "free"
  /\ cb_pc = "idle"
  /\ cb_now_minutes = Unread
  /\ cb_expired = FALSE
  /\ cb_paused = FALSE
  /\ timeout_handler_calls = 0
  /\ ticks = 0

\* no appointment
InitSchedule ==
  /\ s_schedule_time = <<>>
  /\ s_schedule_active = FALSE
  /\ sched_state = "IDLE"

\* soft_rtc.c with the clock at hour:minute:00
InitClock(hour, minute) ==
  /\ s_current_time = [hour |-> hour, minute |-> minute, second |-> 0]
  /\ s_time_mutex = "free"
  /\ rtc_ticks = 0

\* the state after app_main has initialised the modules
Init ==
  /\ InitTempControl
  /\ InitTimer(DefaultTimerDuration)
  /\ InitSchedule
  /\ InitClock(0, 0)
  /\ req = NoReq

\* the ADC readings of Spec: a fault, below the target, at the target, at the
\* hard limit
Readings ==
  {SensorFault, DefaultCurrentTemp, DefaultTargetTemp, CONFIG_TEMP_HARD_LIMIT}

\* the requests of Spec
Str(t) == FormatTime(t[1], t[2])

ScheduleStrings == {Str(<<0, 5>>)}

SyncTimes == {[hour |-> 23, minute |-> 59, second |-> 59]}

Calls ==
  SetPowerCalls(BOOLEAN) \cup SetTimerDurationCalls({0})
    \cup SetScheduleTimeCalls(ScheduleStrings) \cup SetTimeCalls(SyncTimes)

\* every task with every kind of reading, within MaxTicks scheduler callbacks
\* of a countdown's start and MaxRtcTicks seconds of the clock being set
Next ==
  \/ TaskReadNtc(Readings)
  \/ TaskTakeMutex
  \/ TaskTick
  \/ CbTryLock(MaxTicks)
  \/ CbSkip(MaxTicks)
  \/ CbCountdown
  \/ CbSetPower
  \/ CbAppointment
  \/ CbGetTime
  \/ CbGetTimeTimeout
  \/ CbTrigger
  \/ CbGive
  \/ RtcTick
  \/ ReqTake(Calls)
  \/ ReqReturn

Spec == Init /\ [][Next]_vars

----------------------------------------------------------------------------
(* Whole countdowns: the timer is started with power on, the readings stay  *)
(* below the limit, nobody requests power off and no scheduler callback is  *)
(* skipped.  The duration has been set to 1..MaxDuration minutes and the    *)
(* clock stands at 00:00, the start minute of an appointment at 00:05.      *)

InitCountdown ==
  /\ InitTempControl
  /\ \E d \in 1..MaxDuration : InitTimer(d)
  /\ InitSchedule
  /\ InitClock(0, 0)
  /\ req = NoReq

CountdownCalls ==
  SetPowerCalls({TRUE}) \cup SetTimerDurationCalls(1..MaxDuration)
    \cup SetScheduleTimeCalls({Str(<<0, 5>>)})
    \cup (IF s_power_on THEN TimerCalls({"start_timer"}) ELSE {})

NextCountdown ==
  \/ TaskReadNtc({DefaultCurrentTemp})
  \/ TaskTakeMutex
  \/ TaskTick
  \/ CbTryLock(60 * MaxDuration)
  \/ CbCountdown
  \/ CbSetPower
  \/ CbAppointment
  \/ CbGetTime
  \/ CbTrigger
  \/ CbGive
  \/ ReqTake(CountdownCalls)
  \/ ReqReturn

SpecCountdown == InitCountdown /\ [][NextCountdown]_vars

----------------------------------------------------------------------------
(* Expiries: as above, but power is switched on by the appointment alone    *)
(* and no request touches it.                                               *)

ExpiryCalls ==
  SetTimerDurationCalls(1..MaxDuration)
    \cup SetScheduleTimeCalls({Str(<<0, 5>>)})

NextExpiry ==
  \/ TaskReadNtc({DefaultCurrentTemp})
  \/ TaskTakeMutex
  \/ TaskTick
  \/ CbTryLock(60 * MaxDuration)
  \/ CbCountdown
  \/ CbSetPower
  \/ CbAppointment
  \/ CbGetTime
  \/ CbTrigger
  \/ CbGive
  \/ ReqTake(ExpiryCalls)
  \/ ReqReturn

SpecExpiry == InitCountdown /\ [][NextExpiry]_vars

----------------------------------------------------------------------------
(* The start minute: an appointment is armed for any time of the day with   *)
(* the clock at its start minute, or for 00:02 with the clock at any minute *)
(* of the day, and the scheduler callback runs.                             *)

InitWrap ==
  /\ InitTempControl
  /\ InitTimer(DefaultTimerDuration)
  /\ req = NoReq
  /\ sched_state = "SCHEDULED"
  /\ s_schedule_active = TRUE
  /\ \E h \in 0..23, m \in 0..59 :
       \/ /\ s_schedule_time = FormatTime(h, m)
          /\ \E now \in {StartMinutes(h, m), (StartMinutes(h, m) + 1) % MinutesPerDay} :
               InitClock(now \div 60, now % 60)
       \/ /\ s_schedule_time = FormatTime(0, 2)
          /\ InitClock(h, m)

NextWrap ==
  \/ CbTryLock(1)
  \/ CbCountdown
  \/ CbSetPower
  \/ CbAppointment
  \/ CbGetTime
  \/ CbTrigger
  \/ CbGive

SpecWrap == InitWrap /\ [][NextWrap]_vars

----------------------------------------------------------------------------
(* The control loop's tick body has run: the step from "tick" to "read" *)

TickStep == task_pc = "tick" /\ task_pc' = "read"

\* C1: a control tick in which current_temp >= HARD_LIMIT ends with power off,
\* mode IDLE, is_heating false and the actuator at zero, whatever the state
\* before it was
C1_ShutoffAtHardLimit ==
  [][(TickStep /\ s_current_temp' >= CONFIG_TEMP_HARD_LIMIT)
       => (~s_power_on' /\ tc_state' = "IDLE" /\ ~s_is_heating'
           /\ heater_duty' = 0)]_vars

\* a tick has shut the heater off while the loop was heating: power is off
\* and the PID still holds the integral of the heating before it
C1_Witness ==
  /\ task_pc = "read"
  /\ s_current_temp >= CONFIG_TEMP_HARD_LIMIT
  /\ ~s_power_on /\ tc_state = "IDLE" /\ heater_duty = 0
  /\ s_pid.integral > 0

\* C2: while the stored temperature is at or above HARD_LIMIT the actuator
\* output is zero in every state, and every tick that still finds it there
\* sets power off again, also after set_power(true) by a request or by the
\* scheduler
C2_InterlockEveryTick ==
  /\ [](s_current_temp >= CONFIG_TEMP_HARD_LIMIT => heater_duty = 0)
  /\ [][(TickStep /\ s_current_temp >= CONFIG_TEMP_HARD_LIMIT
           /\ s_current_temp' >= CONFIG_TEMP_HARD_LIMIT)
          => (~s_power_on' /\ heater_duty' = 0)]_vars

\* power was requested again during the breach and the next tick is about to
\* re-check the limit
C2_Witness ==
  /\ s_current_temp >= CONFIG_TEMP_HARD_LIMIT
  /\ s_power_on
  /\ task_pc = "tick"
  /\ TickTemp >= CONFIG_TEMP_HARD_LIMIT

\* C3: in every reachable state, sensor_ok == false implies mode == ERROR
C3_SensorFaultIsError == ~s_sensor_ok => tc_state = "ERROR"

----------------------------------------------------------------------------
(* The scheduler *)

\* the start minute of the armed appointment
ArmedStart ==
  LET t == parse_schedule_time(s_schedule_time)
  IN  StartMinutes(t.hour, t.minute)

\* the callback's call of temp_control_set_power(false) returns
PowerOffStep == cb_pc = "power_off" /\ cb_pc' # "power_off"

\* C5: a countdown started with power on, power staying on and no callback
\* skipped, runs s_timer_seconds = 60*d - ticks down to the 60*d-th
\* decrement, on which the mode becomes TIMEOUT and power is set off; the mode
\* is not TIMEOUT before, and remaining minutes is the ceiling of the seconds,
\* d at the start and never going up
C5_CountdownExact ==
  /\ [](s_timer_running =>
          /\ s_timer_seconds = 60 * s_timer_duration - ticks
          /\ s_timer_seconds >= 1
          /\ sched_state # "TIMEOUT"
          /\ 60 * (s_timer_remaining - 1) < s_timer_seconds
          /\ s_timer_seconds <= 60 * s_timer_remaining)
  /\ [](s_timer_running /\ ticks = 0 => s_timer_remaining = s_timer_duration)
  /\ [](cb_pc = "power_off" =>
          /\ ticks = 60 * s_timer_duration
          /\ sched_state = "TIMEOUT"
          /\ s_timer_remaining = 0
          /\ ~s_timer_running)
  /\ [][PowerOffStep => ~s_power_on' /\ heater_duty' = 0]_vars
  /\ [][ticks' = ticks + 1 => s_timer_remaining' <= s_timer_remaining]_vars

\* the longest countdown has expired on its last tick and power is off
C5_Witness ==
  /\ cb_pc = "give"
  /\ cb_expired
  /\ s_timer_duration = MaxDuration
  /\ ticks = 60 * MaxDuration
  /\ sched_state = "TIMEOUT"
  /\ s_timer_remaining = 0
  /\ ~s_power_on

\* C6 as claimed: at the end of a scheduler tick in which the countdown
\* reached zero the timer is not running, remaining is 0, the mode is TIMEOUT
\* and power is off
C6_ExpiryEndsOff ==
  (cb_pc = "give" /\ cb_expired) =>
    (~s_timer_running /\ s_timer_remaining = 0 /\ sched_state = "TIMEOUT"
     /\ ~s_power_on)

\* C6 amended: when the countdown reaches zero the countdown step leaves the
\* timer stopped, remaining 0 and the mode TIMEOUT, and the power-off request
\* that follows leaves power off; at the end of the tick this still holds
\* unless the appointment check of the same tick has triggered, and then
\* power is on again, a new countdown of the configured duration is running,
\* the mode is TIMER_RUNNING and the appointment is disarmed
C6_ExpiryThenAppointment ==
  /\ [](cb_pc = "power_off" =>
          ~s_timer_running /\ s_timer_remaining = 0 /\ sched_state = "TIMEOUT")
  /\ [][PowerOffStep => ~s_power_on']_vars
  /\ []((cb_pc = "give" /\ cb_expired) =>
          IF cb_now_minutes = ArmedStart /\ ~s_schedule_active
          THEN /\ s_power_on
               /\ s_timer_running
               /\ s_timer_seconds = 60 * s_timer_duration
               /\ s_timer_remaining = s_timer_duration
               /\ sched_state = "TIMER_RUNNING"
          ELSE /\ ~s_power_on
               /\ ~s_timer_running
               /\ s_timer_remaining = 0
               /\ sched_state = "TIMEOUT")

\* a tick in which the countdown expired ends without a trigger
C6_Witness ==
  /\ cb_pc = "give"
  /\ cb_expired
  /\ cb_now_minutes = Unread
  /\ ~s_power_on
  /\ sched_state = "TIMEOUT"

\* C7: with no call in progress, power on implies that a countdown is running
C7_PowerOnStartsCountdown ==
  (cb_pc = "idle" /\ req.op = "none") => (s_power_on => s_timer_running)

\* the minute of the day the clock shows
ClockMinutes == s_current_time.hour * 60 + s_current_time.minute

\* the callback has read the clock and compared
CompareStep == cb_pc = "clock" /\ cb_pc' # "clock"

\* C8: the clock is read only for an armed appointment found with power off;
\* the callback triggers if and only if its now_minutes equals the start
\* minute, now_minutes being the clock's minute when the clock was read; the
\* trigger sets power on, disarms the appointment and starts the countdown
\* with the configured duration in mode TIMER_RUNNING; only an armed
\* appointment triggers and only set_schedule_time arms one
C8_TriggerOnEquality ==
  /\ [][(cb_pc = "appointment" /\ cb_pc' = "clock")
          => (s_schedule_active /\ ~s_power_on)]_vars
  /\ [][CompareStep
          => ((cb_pc' = "power_on") <=> (cb_now_minutes' = ArmedStart))]_vars
  /\ [][(CompareStep /\ s_time_mutex = "free")
          => cb_now_minutes' = ClockMinutes]_vars
  /\ [](cb_pc \in {"clock", "power_on", "trigger"} => s_schedule_active)
  /\ [][(cb_pc = "power_on" /\ cb_pc' = "trigger") => s_power_on']_vars
  /\ [][(cb_pc = "trigger" /\ cb_pc' = "give")
          => /\ ~s_schedule_active'
             /\ s_timer_running'
             /\ s_timer_seconds' = 60 * s_timer_duration
             /\ s_timer_remaining' = s_timer_duration
             /\ sched_state' = "TIMER_RUNNING"]_vars
  /\ [][(~s_schedule_active /\ s_schedule_active')
          => req.op = "set_schedule_time"]_vars

\* the appointment has triggered at its start minute
C8_Witness ==
  /\ cb_pc = "give"
  /\ cb_now_minutes = ArmedStart
  /\ ClockMinutes = ArmedStart
  /\ ~s_schedule_active
  /\ s_power_on
  /\ s_timer_running
  /\ sched_state = "TIMER_RUNNING"

\* the fields the appointment check may write
appointmentVars ==
  <<s_schedule_active, s_schedule_time, sched_state, s_timer_running,
    s_timer_seconds, s_timer_remaining, s_timer_duration, s_power_on>>

\* C9: an appointment check that finds power on ends the callback with the
\* appointment, the countdown, the mode and the power as they were; the
\* appointment is disarmed only by a trigger or by cancel_schedule
C9_PowerGatesAppointment ==
  /\ [][(cb_pc = "appointment" /\ cb_pc' # "appointment" /\ s_power_on)
          => (cb_pc' = "give" /\ UNCHANGED appointmentVars)]_vars
  /\ [][(cb_pc = "give" /\ cb_pc' # "give")
          => (cb_pc' = "idle" /\ UNCHANGED appointmentVars)]_vars
  /\ [][(s_schedule_active /\ ~s_schedule_active')
          => (cb_pc = "trigger" \/ req.op = "cancel_schedule")]_vars

\* a callback ends without having read the clock, with power on, at the
\* start minute of an appointment that is still armed
C9_Witness ==
  /\ cb_pc = "give"
  /\ cb_now_minutes = Unread
  /\ s_power_on
  /\ s_schedule_active
  /\ s_time_mutex = "free"
  /\ ClockMinutes = ArmedStart

\* C10: the start minute of every armed appointment is the scheduled minute
\* less the preheat time, within 0..1439; the appointment for 00:02 triggers
\* with the clock at 23:57 (minute 1437), and at no other minute
C10_StartMinuteWraps ==
  /\ s_schedule_active =>
       LET t == parse_schedule_time(s_schedule_time)
       IN  /\ t.ok
           /\ ArmedStart \in 0..(MinutesPerDay - 1)
           /\ ArmedStart = (t.hour * 60 + t.minute + MinutesPerDay
                              - CONFIG_PREHEAT_TIME_MINUTES) % MinutesPerDay
  /\ s_schedule_time = FormatTime(0, 2) =>
       /\ cb_pc \in {"power_on", "trigger"} =>
            (cb_now_minutes = 1437 /\ ClockMinutes = 1437)
       /\ (cb_pc = "give" /\ cb_now_minutes = 1437) => ~s_schedule_active
       /\ (cb_pc = "give" /\ ClockMinutes # 1437) => s_schedule_active

\* the appointment for 00:02 triggers at 23:57
C10_Witness ==
  /\ s_schedule_time = FormatTime(0, 2)
  /\ cb_pc = "trigger"
  /\ s_current_time.hour = 23 /\ s_current_time.minute = 57
  /\ s_power_on

----------------------------------------------------------------------------
(* Pauses: a countdown is started with power on and requests switch the     *)
(* power off and on again while the scheduler callback runs, with the clock *)
(* at 00:00, the start minute of an appointment at 00:05.                   *)

\* scheduler callbacks that decrement, explored after a countdown's start
MaxPauseTicks == 2

PauseCalls ==
  SetPowerCalls(BOOLEAN) \cup SetScheduleTimeCalls({Str(<<0, 5>>)})
    \cup (IF s_power_on THEN TimerCalls({"start_timer"}) ELSE {})

NextPause ==
  \/ TaskReadNtc({DefaultCurrentTemp})
  \/ TaskTakeMutex
  \/ TaskTick
  \/ CbTryLock(MaxPauseTicks)
  \/ CbCountdown
  \/ CbSetPower
  \/ CbAppointment
  \/ CbGetTime
  \/ CbTrigger
  \/ CbGive
  \/ ReqTake(PauseCalls)
  \/ ReqReturn

SpecPause == InitCountdown /\ [][NextPause]_vars

\* the countdown as a reader of the scheduler sees it
countdownVars ==
  <<s_timer_seconds, s_timer_remaining, s_timer_running, sched_state>>

\* a step of the scheduler callback after its countdown step
CallbackStep == cb_pc \notin {"idle", "countdown"} /\ cb_pc' # cb_pc

\* C11 as claimed: a scheduler tick that finds the timer running and the
\* power off changes neither the remaining seconds, nor the remaining
\* minutes, nor timer_running, nor the mode
C11_PausedTickFreezesCountdown ==
  /\ [][(cb_pc = "countdown" /\ cb_pc' # cb_pc /\ s_timer_running
           /\ ~s_power_on)
          => UNCHANGED countdownVars]_vars
  /\ [][(CallbackStep /\ cb_paused) => UNCHANGED countdownVars]_vars

\* C11 amended: the countdown step of a tick that finds the timer running
\* and the power off changes nothing of the countdown, and no later step of
\* that tick does, except the trigger of an appointment that is due, which
\* restarts the countdown with the configured duration; set_power changes
\* nothing of the countdown, and the countdown step that finds the power on
\* again takes one second off the value the pause has kept
C11_PausedUnlessTriggered ==
  /\ [][(cb_pc = "countdown" /\ cb_pc' # cb_pc /\ s_timer_running
           /\ ~s_power_on)
          => (UNCHANGED countdownVars /\ cb_pc' = "appointment")]_vars
  /\ [][(CallbackStep /\ cb_paused)
          => IF cb_pc = "trigger"
             THEN /\ s_timer_seconds' = 60 * s_timer_duration
                  /\ s_timer_remaining' = s_timer_duration
                  /\ s_timer_running'
                  /\ sched_state' = "TIMER_RUNNING"
             ELSE UNCHANGED countdownVars]_vars
  /\ [][(req.op = "set_power" /\ req'.op = "none")
          => UNCHANGED countdownVars]_vars
  /\ [][(cb_pc = "countdown" /\ cb_pc' # cb_pc /\ s_timer_running
           /\ s_power_on)
          => s_timer_seconds' = s_timer_seconds - 1]_vars

\* a tick has found a countdown that had run for a second paused, and ends
\* with the countdown as it was
C11_Witness ==
  /\ cb_pc = "give"
  /\ cb_paused
  /\ ~s_power_on
  /\ s_timer_running
  /\ ticks = 1
  /\ s_timer_seconds = 60 * s_timer_duration - 1
  /\ sched_state = "TIMER_RUNNING"

----------------------------------------------------------------------------
(* Notifications: countdowns run to their end, or are stopped, restarted,   *)
(* paused or given a new duration by requests on the way.                   *)

NotifyCalls ==
  SetPowerCalls(BOOLEAN) \cup SetTimerDurationCalls({1})
    \cup SetScheduleTimeCalls({Str(<<0, 5>>)})
    \cup TimerCalls({"start_timer", "stop_timer", "cancel_schedule"})

NextNotify ==
  \/ TaskReadNtc({DefaultCurrentTemp})
  \/ TaskTakeMutex
  \/ TaskTick
  \/ CbTryLock(60 * MaxDuration)
  \/ CbCountdown
  \/ CbSetPower
  \/ CbAppointment
  \/ CbGetTime
  \/ CbTrigger
  \/ CbGive
  \/ ReqTake(NotifyCalls)
  \/ ReqReturn

SpecNotify == InitCountdown /\ [][NextNotify]_vars

\* C12: a scheduler tick invokes the timeout callback once if its countdown
\* step took the countdown to zero and not at all otherwise, a tick that
\* found the countdown paused included; the callback is invoked from that
\* tick's expiry alone, and no setter invokes it
C12_TimeoutCallbackOncePerExpiry ==
  /\ [](cb_pc = "give" =>
          timeout_handler_calls = (IF cb_expired THEN 1 ELSE 0))
  /\ [](cb_paused => timeout_handler_calls = 0)
  /\ [][timeout_handler_calls' > timeout_handler_calls
          => (cb_pc = "power_off" /\ cb_expired /\ s_timer_seconds <= 0)]_vars
  /\ [][req.op # "none" /\ req'.op = "none"
          => UNCHANGED timeout_handler_calls]_vars

\* an expiry tick has invoked the callback
C12_Witness ==
  /\ cb_pc = "give"
  /\ cb_expired
  /\ timeout_handler_calls = 1
  /\ s_timer_seconds = 0
  /\ ~s_timer_running

----------------------------------------------------------------------------
(* Target temperatures: callers set the target to any int and switch the    *)
(* power while the control loop runs.  The caller that has obtained the     *)
(* mutex is the one in req; callers waiting for it hold their argument only.*)

\* the arguments: INT_MIN, just below and at TEMP_MIN, in range, just above
\* TEMP_MAX, INT_MAX
TargetArgs == {-2147483647 - 1, 29, 30, 60, 91, 2147483647}

TargetCalls == SetPowerCalls(BOOLEAN) \cup SetTargetTempCalls(TargetArgs)

NextTarget ==
  \/ TaskReadNtc(Readings)
  \/ TaskTakeMutex
  \/ TaskTick
  \/ ReqTake(TargetCalls)
  \/ ReqReturn

SpecTarget == Init /\ [][NextTarget]_vars

\* C13: target_temp is within TEMP_MIN..TEMP_MAX in every state, whatever
\* the arguments of the set_target_temp calls and however the calls and the
\* control ticks interleave; so is the setpoint the control loop hands to
\* the PID
C13_TargetTempInRange ==
  /\ s_target_temp \in CONFIG_TEMP_MIN..CONFIG_TEMP_MAX
  /\ s_pid.setpoint \in {0} \cup (CONFIG_TEMP_MIN..CONFIG_TEMP_MAX)

\* a call with an argument above TEMP_MAX has set the target, the control
\* loop has taken it over, and a call with an argument below TEMP_MIN now
\* holds the mutex
C13_Witness ==
  /\ s_target_temp = CONFIG_TEMP_MAX
  /\ s_pid.setpoint = CONFIG_TEMP_MAX
  /\ req.op = "set_target_temp"
  /\ req.given < CONFIG_TEMP_MIN

----------------------------------------------------------------------------
(* Status reads: the request task arms an appointment or reads the status   *)
(* while the control loop and the scheduler callback run.                   *)

NextStatus ==
  \/ TaskReadNtc({DefaultCurrentTemp, CONFIG_TEMP_HARD_LIMIT})
  \/ TaskTakeMutex
  \/ TaskTick
  \/ CbTryLock(MaxTicks)
  \/ CbSkip(MaxTicks)
  \/ CbCountdown
  \/ CbSetPower
  \/ CbAppointment
  \/ CbGetTime
  \/ CbTrigger
  \/ CbGive
  \/ ReqTake(SetScheduleTimeCalls(ScheduleStrings))
  \/ ReqReturn
  \/ StatusGet
  \/ StatusRead
  \/ StatusRespond

SpecStatus == Init /\ [][NextStatus]_vars

\* what the control loop keeps true of its fields in every state: it heats
\* only while the stored temperature is below the hard limit
HeatingBelowLimit == s_is_heating => s_current_temp < CONFIG_TEMP_HARD_LIMIT

\* C14: the control loop's fields are never heating at or above the hard
\* limit, and the snapshot the status handler has collected through the
\* accessors is no mix of two states: it is not heating at or above the
\* hard limit either
C14_SnapshotIsOneState ==
  /\ HeatingBelowLimit
  /\ (req.op = "status" /\ req.pc = "respond") =>
       (req.is_heating => req.current_temp < CONFIG_TEMP_HARD_LIMIT)

----------------------------------------------------------------------------
(* The PID controller on its own: pid_compute, pid_set_setpoint and         *)
(* pid_reset are applied in any order, from any accumulator within bounds,  *)
(* to measured values that give errors from -120 to 130.                    *)

PidSetpoints == {CONFIG_TEMP_MIN, DefaultTargetTemp, CONFIG_TEMP_MAX}

PidMeasured == {-40, 0, DefaultCurrentTemp, 54, 55, 56, 94, 150}

InitPid ==
  /\ s_power_on = TRUE
  /\ s_target_temp = DefaultTargetTemp
  /\ s_current_temp = DefaultCurrentTemp
  /\ s_is_heating = FALSE
  /\ tc_state = "IDLE"
  /\ s_sensor_ok = TRUE
  /\ heater_duty = 0
  /\ \E sp \in PidSetpoints, i \in (-PidIntegralMax)..PidIntegralMax :
       s_pid = [setpoint |-> sp, integral |-> i, prev_error |-> 0]
  /\ tc_mutex = "free"
  /\ task_pc = "read"
  /\ task_temp = DefaultCurrentTemp
  /\ InitTimer(DefaultTimerDuration)
  /\ InitSchedule
  /\ InitClock(0, 0)
  /\ req = NoReq

\* output = pid_compute(&s_pid, current); set_heater_duty(output)
PidCompute ==
  /\ \E current \in PidMeasured :
       LET r == pid_compute(s_pid, current)
       IN  /\ s_pid' = r.pid
           /\ heater_duty' = set_heater_duty(r.output)
  /\ UNCHANGED <<s_power_on, s_target_temp, s_current_temp, s_is_heating,
                 tc_state, s_sensor_ok, tc_mutex, task_pc, task_temp>>
  /\ UNCHANGED <<schedVars, rtcVars, req>>

PidSetSetpoint ==
  /\ \E sp \in PidSetpoints : s_pid' = pid_set_setpoint(s_pid, sp)
  /\ UNCHANGED <<s_power_on, s_target_temp, s_current_temp, s_is_heating,
                 tc_state, s_sensor_ok, heater_duty, tc_mutex, task_pc,
                 task_temp>>
  /\ UNCHANGED <<schedVars, rtcVars, req>>

PidReset ==
  /\ s_pid' = pid_reset(s_pid)
  /\ UNCHANGED <<s_power_on, s_target_temp, s_current_temp, s_is_heating,
                 tc_state, s_sensor_ok, heater_duty, tc_mutex, task_pc,
                 task_temp>>
  /\ UNCHANGED <<schedVars, rtcVars, req>>

NextPid == PidCompute \/ PidSetSetpoint \/ PidReset

SpecPid == InitPid /\ [][NextPid]_vars

\* C15: the integral accumulator is within -integral_max..integral_max in
\* every state, so after every compute call, whatever the measured values
\* and the accumulator it started from
C15_IntegralWithinBounds ==
  /\ s_pid.integral \in (-PidIntegralMax)..PidIntegralMax
  /\ \A current \in PidMeasured :
       pid_compute(s_pid, current).pid.integral
         \in (-PidIntegralMax)..PidIntegralMax

\* a compute call with an error above integral_max has left the accumulator
\* at integral_max
C15_Witness ==
  /\ s_pid.integral = PidIntegralMax
  /\ s_pid.prev_error > PidIntegralMax

\* C16: the value compute returns is within output_min..output_max for
\* every PID state and every measured value, and the actuator is driven
\* within 0..100 percent
C16_OutputWithinLimits ==
  /\ \A current \in PidMeasured :
       pid_compute(s_pid, current).output \in PidOutputMin..PidOutputMax
  /\ heater_duty \in PidOutputMin..PidOutputMax

\* a compute call whose proportional term alone is above 100 percent has
\* driven the actuator at output_max, and from the state it left a measured
\* value far above the setpoint returns output_min
C16_Witness ==
  /\ heater_duty = PidOutputMax
  /\ (s_pid.prev_error * CONFIG_PID_KP) \div 10 > PidOutputMax
  /\ \E current \in PidMeasured :
       /\ s_pid.setpoint - current < 0
       /\ pid_compute(s_pid, current).output = PidOutputMin

----------------------------------------------------------------------------
(* Schedule strings: requests give set_schedule_time well-formed and        *)
(* ill-formed strings while the scheduler callback and the clock run.       *)

\* "08:30", "00:05", "25:99", "abc", "8:30x", "1:2:3", " 0:05", "0:5"
FormStrings ==
  {FormatTime(8, 30), FormatTime(0, 5),
   <<"2", "5", ":", "9", "9">>, <<"a", "b", "c">>,
   <<"8", ":", "3", "0", "x">>, <<"1", ":", "2", ":", "3">>,
   <<" ", "0", ":", "0", "5">>, <<"0", ":", "5">>}

NextSchedule ==
  \/ TaskReadNtc({DefaultCurrentTemp})
  \/ TaskTakeMutex
  \/ TaskTick
  \/ CbTryLock(MaxTicks)
  \/ CbSkip(MaxTicks)
  \/ CbCountdown
  \/ CbSetPower
  \/ CbAppointment
  \/ CbGetTime
  \/ CbTrigger
  \/ CbGive
  \/ RtcTick
  \/ ReqTake(SetScheduleTimeCalls(FormStrings)
               \cup TimerCalls({"cancel_schedule"}))
  \/ ReqReturn
  \/ ReqRejected(FormStrings)

SpecSchedule == Init /\ [][NextSchedule]_vars

\* a string of the form HH:MM with 00 <= HH <= 23 and 00 <= MM <= 59
IsScheduleFormat(str) ==
  /\ Len(str) = 5
  /\ \A i \in {1, 2, 4, 5} : IsDigit(str[i])
  /\ str[3] = ":"
  /\ 10 * DigitVal(str[1]) + DigitVal(str[2]) <= 23
  /\ 10 * DigitVal(str[4]) + DigitVal(str[5]) <= 59

\* C17: a set_schedule_time call gets as far as writing the schedule only
\* with a string of the HH:MM form and in range; with any other string the
\* schedule time, the active flag and the mode stay as they are
C17_InvalidStringChangesNothing ==
  req.op = "set_schedule_time" => IsScheduleFormat(req.given)

----------------------------------------------------------------------------
(* Durations: requests set the timer duration to any int, switch the power, *)
(* start and stop the timer and arm an appointment while the control loop   *)
(* and the scheduler callback run.                                          *)

\* INT_MIN, 0, a duration in range, the minute after the maximum, INT_MAX
DurationArgs == {-2147483647 - 1, 0, 2, 241, 2147483647}

DurationCalls ==
  SetPowerCalls(BOOLEAN) \cup SetTimerDurationCalls(DurationArgs)
    \cup TimerCalls({"start_timer", "stop_timer"})
    \cup SetScheduleTimeCalls(ScheduleStrings)

NextDuration ==
  \/ TaskReadNtc({DefaultCurrentTemp})
  \/ TaskTakeMutex
  \/ TaskTick
  \/ CbTryLock(MaxTicks)
  \/ CbSkip(MaxTicks)
  \/ CbCountdown
  \/ CbSetPower
  \/ CbAppointment
  \/ CbGetTime
  \/ CbTrigger
  \/ CbGive
  \/ ReqTake(DurationCalls)
  \/ ReqReturn

SpecDuration == Init /\ [][NextDuration]_vars

\* scheduler_set_timer_duration returns
SetDurationStep == req.op = "set_timer_duration" /\ req'.op = "none"

\* a countdown is started: by scheduler_start_timer, by
\* scheduler_set_timer_duration with the power on, or by an appointment
StartCountdownStep ==
  \/ req.op = "start_timer" /\ req'.op = "none"
  \/ SetDurationStep /\ s_power_on
  \/ cb_pc = "trigger" /\ cb_pc' = "give"

\* C18: timer_duration is within 1..MAX_HEATING_MINUTES in every state,
\* whatever the arguments of set_timer_duration, and every countdown that
\* is started has 60 * timer_duration seconds, between 60 and
\* 60 * MAX_HEATING_MINUTES
C18_DurationWithinLimits ==
  /\ [](s_timer_duration \in 1..CONFIG_MAX_HEATING_TIME_MINUTES)
  /\ [][StartCountdownStep
          => /\ s_timer_running'
             /\ s_timer_seconds' = 60 * s_timer_duration'
             /\ s_timer_seconds'
                  \in 60..(60 * CONFIG_MAX_HEATING_TIME_MINUTES)]_vars
  /\ [](s_timer_seconds \in 0..(60 * CONFIG_MAX_HEATING_TIME_MINUTES))

\* a call with an argument above the maximum has started the longest
\* countdown, and a call with an argument below 1 now holds the mutex
C18_Witness ==
  /\ s_timer_duration = CONFIG_MAX_HEATING_TIME_MINUTES
  /\ s_timer_running
  /\ s_timer_seconds = 60 * CONFIG_MAX_HEATING_TIME_MINUTES
  /\ req.op = "set_timer_duration"
  /\ req.given < 1

\* C19: set_timer_duration(m) that finds the power on leaves, when it
\* returns, remaining seconds = 60 * clamp(m) and remaining minutes =
\* clamp(m), with the timer running in mode TIMER_RUNNING; no scheduler tick
\* is needed
C19_DurationResetsLiveCountdown ==
  [][(SetDurationStep /\ s_power_on)
       => /\ s_timer_duration' = ClampDuration(req.given)
          /\ s_timer_seconds' = 60 * ClampDuration(req.given)
          /\ s_timer_remaining' = ClampDuration(req.given)
          /\ s_timer_running'
          /\ sched_state' = "TIMER_RUNNING"
          /\ cb_pc = "idle" /\ cb_pc' = "idle"]_vars

\* set_timer_duration(2) has just returned with the power on: a countdown
\* of 120 seconds is running and no scheduler tick has touched it
C19_Witness ==
  /\ req.op = "none"
  /\ cb_pc = "idle"
  /\ s_power_on
  /\ s_timer_running
  /\ s_timer_duration = 2
  /\ s_timer_seconds = 120
  /\ s_timer_remaining = 2
  /\ ticks = 0

\* C20 as claimed: set_timer_duration with an argument outside
\* 1..MAX_HEATING_MINUTES changes neither timer_duration nor the countdown
C20_InvalidDurationRejected ==
  [][(SetDurationStep
        /\ req.given \notin 1..CONFIG_MAX_HEATING_TIME_MINUTES)
       => UNCHANGED <<s_timer_duration, countdownVars>>]_vars

\* C20 amended: set_timer_duration with an argument outside
\* 1..MAX_HEATING_MINUTES is not rejected: it acts as the call with the
\* nearest limit, 1 for an argument below 1 and MAX_HEATING_MINUTES for one
\* above, which becomes timer_duration and, with the power on, the live
\* countdown; with the power off the countdown stays as it is
C20_InvalidDurationClamped ==
  [][(SetDurationStep
        /\ req.given \notin 1..CONFIG_MAX_HEATING_TIME_MINUTES)
       => LET limit == IF req.given < 1 THEN 1
                       ELSE CONFIG_MAX_HEATING_TIME_MINUTES
          IN  /\ s_timer_duration' = limit
              /\ IF s_power_on
                 THEN /\ s_timer_seconds' = 60 * limit
                      /\ s_timer_remaining' = limit
                      /\ s_timer_running'
                      /\ sched_state' = "TIMER_RUNNING"
                 ELSE UNCHANGED countdownVars]_vars

\* a call with an argument below 1 has returned with the power on: the
\* duration is 1 and a countdown of 60 seconds is running
C20_Witness ==
  /\ req.op = "none"
  /\ s_power_on
  /\ s_timer_duration = 1
  /\ s_timer_running
  /\ s_timer_seconds = 60
  /\ s_timer_remaining = 1
  /\ ticks = 0

----------------------------------------------------------------------------
(* Modes of the scheduler: requests arm and cancel appointments, start and  *)
(* stop the timer, set its duration and switch the power while the          *)
(* scheduler callback runs whole countdowns, with the clock at 00:00, the   *)
(* start minute of an appointment at 00:05.                                 *)

ModeCalls ==
  SetPowerCalls(BOOLEAN) \cup SetTimerDurationCalls({1})
    \cup SetScheduleTimeCalls({Str(<<0, 5>>)})
    \cup TimerCalls({"start_timer", "stop_timer", "cancel_schedule"})

NextModes ==
  \/ CbTryLock(60 * MaxDuration)
  \/ CbSkip(60 * MaxDuration)
  \/ CbCountdown
  \/ CbSetPower
  \/ CbAppointment
  \/ CbGetTime
  \/ CbTrigger
  \/ CbGive
  \/ ReqTake(ModeCalls)
  \/ ReqReturn

SpecModes == InitCountdown /\ [][NextModes]_vars

\* scheduler_cancel_schedule returns
CancelStep == req.op = "cancel_schedule" /\ req'.op = "none"

\* C21: cancel_schedule disarms the appointment and clears its time; the
\* mode SCHEDULED becomes IDLE and every other mode, TIMER_RUNNING and
\* TIMEOUT among them, stays; timer_running, the remaining seconds and
\* minutes and timer_duration stay as they are, and so do the power and the
\* actuator
C21_CancelDisarmsOnly ==
  [][CancelStep
       => /\ ~s_schedule_active'
          /\ s_schedule_time' = <<>>
          /\ sched_state' = (IF sched_state = "SCHEDULED" THEN "IDLE"
                             ELSE sched_state)
          /\ (sched_state \in {"TIMER_RUNNING", "TIMEOUT"}
                => UNCHANGED sched_state)
          /\ UNCHANGED <<s_timer_running, s_timer_seconds, s_timer_remaining,
                         s_timer_duration>>
          /\ UNCHANGED <<s_power_on, heater_duty>>]_vars

\* an appointment armed during a countdown has been cancelled: the mode has
\* gone from SCHEDULED to IDLE and the countdown is as it was, a second in
C21_Witness ==
  /\ req.op = "none"
  /\ sched_state = "IDLE"
  /\ ~s_schedule_active
  /\ s_schedule_time = <<>>
  /\ s_timer_running
  /\ s_timer_seconds = 60 * s_timer_duration - 1

----------------------------------------------------------------------------
(* Sensor faults *)

\* C22: the reading decides sensor_ok before each tick, with no other call;
\* a control tick with a valid reading ends with sensor_ok true, the reading
\* stored and the mode out of ERROR, whatever the mode before it: IDLE at or
\* above the hard limit or with the power off, else HEATING or KEEPING as the
\* PID output decides
C22_ValidReadingLeavesError ==
  /\ [](task_pc \in {"take", "tick"}
          => (s_sensor_ok <=> task_temp # SensorFault))
  /\ [][(TickStep /\ task_temp # SensorFault)
          => /\ s_sensor_ok'
             /\ s_current_temp' = task_temp
             /\ tc_state' # "ERROR"
             /\ tc_state' =
                  (IF task_temp >= CONFIG_TEMP_HARD_LIMIT \/ ~s_power_on
                   THEN "IDLE"
                   ELSE IF s_is_heating' THEN "HEATING" ELSE "KEEPING")]_vars

\* after a fault that left the mode ERROR with the power on, a valid reading
\* below the limit has been taken and its tick is about to run
C22_Witness ==
  /\ task_pc = "tick"
  /\ tc_state = "ERROR"
  /\ s_sensor_ok
  /\ task_temp # SensorFault
  /\ task_temp < CONFIG_TEMP_HARD_LIMIT
  /\ s_power_on

----------------------------------------------------------------------------
(* Locks: the request task calls setters that may have to wait for their    *)
(* mutex, or reads the status, while the control loop and the scheduler     *)
(* callback run and hold the mutexes in turn.                               *)

LockCalls ==
  SetPowerCalls(BOOLEAN) \cup SetTimerDurationCalls({1})
    \cup SetScheduleTimeCalls(ScheduleStrings)

NextLock ==
  \/ TaskReadNtc({DefaultCurrentTemp})
  \/ TaskBlocked
  \/ TaskTakeMutex
  \/ TaskTick
  \/ CbTryLock(MaxTicks)
  \/ CbSkip(MaxTicks)
  \/ CbCountdown
  \/ CbSetPower
  \/ CbAppointment
  \/ CbGetTime
  \/ CbTrigger
  \/ CbGive
  \/ ReqCall(LockCalls)
  \/ ReqBlocked
  \/ ReqObtain
  \/ ReqReturn
  \/ StatusGet
  \/ StatusRead
  \/ StatusRespond

SpecLock == Init /\ [][NextLock]_vars

\* a getter of the control loop, or of the scheduler's countdown, returns
GetterStep(fields) ==
  req.op = "status" /\ req.pc \in fields /\ req'.pc # req.pc

\* C23: a call that has been blocked on its component's lock beyond the
\* bound does not go on to take the lock: it returns to its caller, with the
\* state as it is; and every getter returns its field with the component's
\* lock obtained, so never while another holds it
C23_BoundedLockWait ==
  /\ [][(req.op = "wait" /\ req.overdue)
          => (req'.op \in {"wait", "none"}
              /\ (req'.op = "none" => UNCHANGED <<tcVars, schedVars>>))]_vars
  /\ [][GetterStep({"current_temp", "target_temp", "is_heating"})
          => tc_mutex = "free"]_vars
  /\ [][GetterStep({"timer_remaining"}) => sched_mutex = "free"]_vars

\* C24: a control tick with an invalid reading ends with sensor_ok false,
\* the mode ERROR and the actuator at zero, has not run the PID and leaves
\* power_on as it was, whatever the state before it, a stored temperature at
\* or above the hard limit included
C24_FaultTickIsError ==
  [][(TickStep /\ task_temp = SensorFault)
       => /\ ~s_sensor_ok'
          /\ tc_state' = "ERROR"
          /\ heater_duty' = 0
          /\ UNCHANGED s_pid
          /\ UNCHANGED s_power_on]_vars

\* C25: the first compute call after heating was deasserted, by a tick that
\* found the power off (mode IDLE), by a hard-limit shutoff (mode IDLE) or by
\* a sensor fault (mode ERROR), or by set_power(false), starts from a reset
\* PID: the integral accumulator and the previous error are zero
C25_PidResetOnDeassert ==
  /\ [][(TickStep /\ TickBranch = "control" /\ tc_state \in {"IDLE", "ERROR"})
          => (s_pid.integral = 0 /\ s_pid.prev_error = 0)]_vars
  /\ [][(req.op = "set_power" /\ req'.op = "none" /\ ~s_power_on')
          => (s_pid'.integral = 0 /\ s_pid'.prev_error = 0)]_vars

\* C26: whenever the scheduler's mutex is free, remaining minutes is the
\* ceiling of remaining seconds / 60: the least r with seconds <= 60 * r;
\* the seconds are never negative
C26_MinutesAreCeiling ==
  sched_mutex = "free" =>
    /\ s_timer_seconds >= 0
    /\ s_timer_seconds <= 60 * s_timer_remaining
    /\ 60 * (s_timer_remaining - 1) < s_timer_seconds

\* the callback has taken 59 seconds off a countdown of two minutes and has
\* given the mutex: 61 seconds and 2 minutes remain
C26_Witness ==
  /\ sched_mutex = "free"
  /\ cb_pc = "idle"
  /\ s_timer_running
  /\ ticks = 59
  /\ s_timer_seconds = 61
  /\ s_timer_remaining = 2

\* C27: whenever the scheduler's mutex is free, the mode IDLE means that
\* nothing is pending: the timer is not running and no appointment is armed
C27_IdleMeansNothingPending ==
  (sched_mutex = "free" /\ sched_state = "IDLE")
    => (~s_timer_running /\ ~s_schedule_active)

\* C28: neither periodic handler waits for its lock.  The scheduler tick
\* goes on from its lock attempt only when the lock is free; the control
\* tick is never blocked on its lock, and an attempt that finds the lock held
\* is followed by the next reading, with the control loop's state, the power
\* and the actuator as they were, not by the tick body
C28_TicksNeverWait ==
  /\ [][(cb_pc = "idle" /\ sched_mutex # "free") => cb_pc' = "idle"]_vars
  /\ [](task_pc # "blocked")
  /\ [][(task_pc = "take" /\ tc_mutex # "free" /\ task_pc' # "take")
          => (task_pc' = "read"
              /\ UNCHANGED <<s_power_on, s_target_temp, s_current_temp,
                             s_is_heating, tc_state, heater_duty,
                             s_pid>>)]_vars

\* the callback is inside its call of temp_control_set_power
InPowerRequest == cb_pc \in {"power_off", "power_on"}

\* C29: the scheduler callback is never blocked on the control loop's lock
\* while it holds its own, and each of its power requests, on expiry and on
\* an appointment trigger, returns with the scheduler's lock not held by it
C29_PowerRequestWithoutOwnLock ==
  /\ []((InPowerRequest /\ tc_mutex # "free") => sched_mutex # "timer")
  /\ [][(InPowerRequest /\ ~InPowerRequest') => sched_mutex # "timer"]_vars

\* the fields of the control loop's state and of the scheduler's state
controlStateFields ==
  <<s_power_on, s_target_temp, s_current_temp, s_is_heating, s_sensor_ok,
    tc_state>>

schedulerStateFields ==
  <<s_timer_duration, s_timer_remaining, s_timer_seconds, s_timer_running,
    s_schedule_time, s_schedule_active, sched_state>>

\* C30: every step that writes a field of the control loop's state is made
\* by the holder of the control loop's lock (the control task, a setter, or
\* the scheduler's power request, which takes the lock for its write), and
\* every step that writes a field of the scheduler's state by the holder of
\* the scheduler's lock
C30_WritesUnderLock ==
  /\ [][controlStateFields' # controlStateFields
          => \/ task_pc = "tick" /\ tc_mutex = "task"
             \/ req.op \in {"set_power", "set_target_temp"} /\ tc_mutex = "req"
             \/ InPowerRequest /\ tc_mutex = "free"]_vars
  /\ [][schedulerStateFields' # schedulerStateFields
          => \/ cb_pc # "idle" /\ sched_mutex = "timer"
             \/ req.op # "none" /\ sched_mutex = "req"]_vars

----------------------------------------------------------------------------
(* Setters of the control loop *)

\* temp_control_set_power returns to a request
SetPowerStep == req.op = "set_power" /\ req'.op = "none"

\* temp_control_set_target_temp returns
SetTargetStep == req.op = "set_target_temp" /\ req'.op = "none"

\* what the claim leaves to the control tick
tickOutputs == <<heater_duty, tc_state, s_is_heating, s_pid>>

\* C31 as claimed: a set_power or set_target_temp call changes the requested
\* field only; the actuator output, the mode, is_heating and the PID state
\* are as they were when it returns
C31_SettersDeferToTick ==
  [][(SetPowerStep \/ SetTargetStep) => UNCHANGED tickOutputs]_vars

\* C31 amended: set_target_temp and set_power(true) change the requested
\* field only; set_power(false) also drives the actuator to zero and resets
\* the PID's integral and previous error, at the call; the mode and
\* is_heating change in a control tick only
C31_PowerOffActsAtOnce ==
  /\ [][SetTargetStep
          => (s_target_temp' = ClampTargetTemp(req.given)
              /\ UNCHANGED <<s_power_on, tickOutputs>>)]_vars
  /\ [][(SetPowerStep /\ req.arg)
          => (s_power_on' /\ UNCHANGED <<s_target_temp, tickOutputs>>)]_vars
  /\ [][(SetPowerStep /\ ~req.arg)
          => /\ ~s_power_on'
             /\ heater_duty' = 0
             /\ s_pid' = [s_pid EXCEPT !.integral = 0, !.prev_error = 0]
             /\ UNCHANGED <<s_target_temp, tc_state, s_is_heating>>]_vars
  /\ [][<<tc_state, s_is_heating>>' # <<tc_state, s_is_heating>>
          => TickStep]_vars

\* set_power(false) has returned while the loop was heating: the actuator is
\* at zero and the PID is reset, and the mode and is_heating are still those
\* of the last tick
C31_Witness ==
  /\ req.op = "none"
  /\ task_pc = "read"
  /\ ~s_power_on
  /\ tc_state = "HEATING"
  /\ s_is_heating
  /\ heater_duty = 0
  /\ s_pid.integral = 0
  /\ s_pid.setpoint = s_target_temp

\* C32: a control tick with a valid reading below the hard limit and the
\* power on stores the reading, drives the actuator to the output the PID
\* computes for it with setpoint = target_temp, and sets is_heating to
\* output > 5 percent and the mode to HEATING or KEEPING accordingly; in
\* every state, so after every tick of any kind, is_heating holds if and
\* only if the mode is HEATING
C32_ControlTickDrivesPid ==
  /\ [][(TickStep /\ s_sensor_ok /\ task_temp < CONFIG_TEMP_HARD_LIMIT
           /\ s_power_on)
          => LET r == pid_compute([s_pid EXCEPT !.setpoint = s_target_temp],
                                  task_temp)
             IN  /\ s_current_temp' = task_temp
                 /\ s_pid' = r.pid
                 /\ s_pid'.setpoint = s_target_temp
                 /\ heater_duty' = r.output
                 /\ s_is_heating' = (r.output > HeatingThreshold)
                 /\ tc_state' = (IF r.output > HeatingThreshold
                                 THEN "HEATING" ELSE "KEEPING")
                 /\ s_power_on']_vars
  /\ [](s_is_heating <=> tc_state = "HEATING")

\* a control tick with the power on has driven the actuator to an output
\* above zero and not above 5 percent: the mode is KEEPING
C32_Witness ==
  /\ task_pc = "read"
  /\ s_power_on
  /\ s_sensor_ok
  /\ tc_state = "KEEPING"
  /\ ~s_is_heating
  /\ heater_duty > 0
  /\ heater_duty <= HeatingThreshold

----------------------------------------------------------------------------
(* Setters of the scheduler *)

\* scheduler_start_timer returns
StartTimerStep == req.op = "start_timer" /\ req'.op = "none"

\* scheduler_stop_timer returns
StopTimerStep == req.op = "stop_timer" /\ req'.op = "none"

\* the appointment
appointmentFields == <<s_schedule_time, s_schedule_active>>

\* C33: start_timer and stop_timer leave schedule_time and the armed flag
\* as they are, and the power and timer_duration too; start_timer sets the
\* countdown to 60 * timer_duration seconds and timer_duration minutes,
\* running, in mode TIMER_RUNNING, with the power on or off; stop_timer
\* stops the countdown at zero and turns the modes TIMER_RUNNING and TIMEOUT
\* into IDLE, keeping SCHEDULED and IDLE
C33_ManualTimerOverrides ==
  /\ [][StartTimerStep
          => /\ s_timer_running'
             /\ s_timer_seconds' = 60 * s_timer_duration
             /\ s_timer_remaining' = s_timer_duration
             /\ sched_state' = "TIMER_RUNNING"
             /\ UNCHANGED <<appointmentFields, s_timer_duration, s_power_on,
                            heater_duty>>]_vars
  /\ [][StopTimerStep
          => /\ ~s_timer_running'
             /\ s_timer_seconds' = 0
             /\ s_timer_remaining' = 0
             /\ sched_state' = (IF sched_state \in {"TIMER_RUNNING", "TIMEOUT"}
                                THEN "IDLE" ELSE sched_state)
             /\ (sched_state = "SCHEDULED" => sched_state' = "SCHEDULED")
             /\ UNCHANGED <<appointmentFields, s_timer_duration, s_power_on,
                            heater_duty>>]_vars

\* start_timer has returned with the power off and an appointment armed:
\* the countdown stands at its full length in mode TIMER_RUNNING and the
\* appointment is still armed
C33_Witness ==
  /\ req.op = "none"
  /\ cb_pc = "idle"
  /\ ~s_power_on
  /\ s_schedule_active
  /\ s_schedule_time = FormatTime(0, 5)
  /\ s_timer_running
  /\ ticks = 0
  /\ s_timer_seconds = 60 * s_timer_duration
  /\ sched_state = "TIMER_RUNNING"

----------------------------------------------------------------------------
(* The three mutexes: the control task, the scheduler callback, the clock   *)
(* callback and a request task that sets the power, arms an appointment or  *)
(* sets the clock, each waiting for its mutex where its code waits.  Every  *)
(* task that can run does run in the end; a task blocked on a mutex gets it *)
(* when it is given (FreeRTOS hands a mutex to its highest-priority waiter, *)
(* and the esp_timer task has the highest priority of the three).           *)

MutexCalls ==
  SetPowerCalls({TRUE}) \cup SetScheduleTimeCalls(ScheduleStrings)
    \cup SetTimeCalls(SyncTimes)

\* a step of the scheduler callback between its take and its give
CallbackRuns ==
  \/ CbCountdown
  \/ CbSetPower
  \/ CbAppointment
  \/ CbGetTime
  \/ CbGetTimeTimeout
  \/ CbTrigger
  \/ CbGive

NextMutex ==
  \/ TaskReadNtc({DefaultCurrentTemp})
  \/ TaskBlocked
  \/ TaskTakeMutex
  \/ TaskTick
  \/ CbTryLock(MaxTicks)
  \/ CbSkip(MaxTicks)
  \/ CallbackRuns
  \/ RtcTick
  \/ ReqCall(MutexCalls)
  \/ ReqBlocked
  \/ ReqObtain
  \/ ReqReturn

\* a step of the callback that waits for nothing
CallbackAdvances == CbCountdown \/ CbTrigger \/ CbGive

\* The callback's appointment check and its read of the clock are always
\* enabled where they stand (the read returns after 100 ms at the latest),
\* so their weak fairness is that the callback does not stay there for ever.
SpecMutex ==
  /\ Init
  /\ [][NextMutex]_vars
  /\ WF_vars(TaskTick)
  /\ WF_vars(ReqReturn)
  /\ WF_vars(CallbackAdvances)
  /\ SF_vars(CbSetPower)
  /\ []<>(cb_pc \notin {"appointment", "clock"})

\* C34: whoever holds a mutex can take its next step, or is the scheduler
\* callback waiting, inside its power request, for the control loop's mutex,
\* whose holder can take its next step (at its appointment check and at its
\* read of the clock, which gives up after 100 ms, the callback's next step
\* waits for nobody): no task waits for a mutex whose holder waits in turn
\* for one of its own; and every mutex that is taken is given again
C34_NoDeadlock ==
  /\ [](tc_mutex = "task" => ENABLED TaskTick)
  /\ []((tc_mutex = "req" \/ sched_mutex = "req" \/ s_time_mutex = "req")
          => ENABLED ReqReturn)
  /\ [](sched_mutex = "timer"
          => \/ cb_pc \in {"appointment", "clock"}
             \/ ENABLED (CallbackAdvances \/ CbSetPower)
             \/ InPowerRequest /\ tc_mutex # "free")
  /\ (tc_mutex # "free" ~> tc_mutex = "free")
  /\ (sched_mutex # "free" ~> sched_mutex = "free")
  /\ (s_time_mutex # "free" ~> s_time_mutex = "free")

\* the longest chain of waits: a request waits for the scheduler's mutex,
\* held by the callback, which waits for the control loop's mutex, held by
\* the control task
C34_Witness ==
  /\ req.op = "wait"
  /\ LockOf(req.call.op) = "sched"
  /\ req.overdue
  /\ sched_mutex = "timer"
  /\ InPowerRequest
  /\ tc_mutex = "task"

----------------------------------------------------------------------------
(* The heater *)

\* C35: whenever the control loop's mutex is free, an actuator output above
\* zero means that the power is on and the stored temperature is below the
\* hard limit
C35_HeaterNeedsPower ==
  (tc_mutex = "free" /\ heater_duty # 0)
    => (s_power_on /\ s_current_temp < CONFIG_TEMP_HARD_LIMIT)

\* the scheduler has switched the power on for an appointment and a control
\* tick has driven the heater before the callback has returned
C35_Witness ==
  /\ tc_mutex = "free"
  /\ cb_pc = "give"
  /\ ~s_schedule_active
  /\ s_schedule_time # <<>>
  /\ s_power_on
  /\ heater_duty > 0
  /\ s_current_temp < CONFIG_TEMP_HARD_LIMIT

\* C36: whenever the scheduler's mutex is free, the mode SCHEDULED means
\* that an appointment is armed, TIMER_RUNNING that the timer is running,
\* and TIMEOUT that the timer is not running and no minutes remain
C36_ModeImpliesFlags ==
  sched_mutex = "free" =>
    /\ sched_state = "SCHEDULED" => s_schedule_active
    /\ sched_state = "TIMER_RUNNING" => s_timer_running
    /\ sched_state = "TIMEOUT" => (~s_timer_running /\ s_timer_remaining = 0)

\* a countdown has expired and the callback has returned: the mode is
\* TIMEOUT with the mutex free
C36_Witness ==
  /\ sched_mutex = "free"
  /\ cb_pc = "idle"
  /\ sched_state = "TIMEOUT"
  /\ ~s_timer_running
  /\ s_timer_seconds = 0
  /\ ~s_power_on

\* C37: set_timer_duration that finds the power off changes timer_duration
\* only, to the clamped argument: the remaining seconds and minutes,
\* timer_running, the mode, the appointment and the power are as they were,
\* so a paused countdown keeps its remaining value
C37_DurationAloneWhenOff ==
  [][(SetDurationStep /\ ~s_power_on)
       => /\ s_timer_duration' = ClampDuration(req.given)
          /\ UNCHANGED <<countdownVars, appointmentFields, s_power_on,
                         heater_duty>>]_vars

\* set_timer_duration(2) has returned with the power off and a countdown of
\* 60 minutes paused after its first second: 3599 seconds still remain
C37_Witness ==
  /\ req.op = "none"
  /\ ~s_power_on
  /\ s_timer_running
  /\ s_timer_duration = 2
  /\ ticks = 1
  /\ s_timer_seconds = 60 * DefaultTimerDuration - 1
  /\ s_timer_remaining = DefaultTimerDuration

----------------------------------------------------------------------------
(* The schedule getter *)

\* scheduler_get_schedule_time, as the status handler calls it, returns
GetScheduleTimeStep ==
  /\ req.op = "status"
  /\ req.pc = "schedule_time"
  /\ req'.op = "status"
  /\ req'.pc # "schedule_time"

\* C38: get_schedule_time returns a non-empty string exactly when an
\* appointment is armed at the time of the copy; after a trigger or a
\* cancel it returns the empty string
C38_ScheduleTimeIffArmed ==
  [][GetScheduleTimeStep
       => (req'.schedule_time # <<>> <=> s_schedule_active)]_vars

----------------------------------------------------------------------------
(* The clock read of the appointment check *)

\* soft_rtc_get_time returns ESP_ERR_TIMEOUT to the appointment check
ClockReadFails == CompareStep /\ s_time_mutex # "free"

\* C39: a scheduler tick whose clock read fails does not trigger the
\* appointment: the check goes straight to the end of the callback, with
\* the power, the armed flag, the countdown and the mode as they were
C39_FailedClockReadNoTrigger ==
  [][ClockReadFails
       => /\ cb_pc' = "give"
          /\ UNCHANGED <<s_power_on, s_schedule_active, countdownVars>>]_vars

----------------------------------------------------------------------------
(* Expiry under contention: whole countdowns as in SpecCountdown, with the  *)
(* request task taking both mutexes again and again and the callback        *)
(* skipped while the scheduler's mutex is held.  No request restarts a      *)
(* running countdown or switches the power off, and the readings stay below *)
(* the limit, so the power stays on until the countdown switches it off.    *)

\* the duration has been set to MaxDuration minutes
InitFair ==
  /\ InitTempControl
  /\ InitTimer(MaxDuration)
  /\ InitSchedule
  /\ InitClock(0, 0)
  /\ req = NoReq

FairCalls ==
  SetPowerCalls({TRUE}) \cup SetScheduleTimeCalls({Str(<<0, 5>>)})
    \cup (IF s_power_on /\ ~s_timer_running
          THEN TimerCalls({"start_timer"}) ELSE {})

NextFair ==
  \/ TaskReadNtc({DefaultCurrentTemp})
  \/ TaskTakeMutex
  \/ TaskTick
  \/ CbTryLock(60 * MaxDuration)
  \/ CbSkip(60 * MaxDuration)
  \/ CbCountdown
  \/ CbSetPower
  \/ CbAppointment
  \/ CbGetTime
  \/ CbTrigger
  \/ CbGive
  \/ ReqTake(FairCalls)
  \/ ReqReturn

\* The esp_timer task calls the callback every second and a request holds
\* the scheduler's mutex for a few instructions, so the try-lock succeeds
\* again and again: strong fairness, the mutex being taken in between.  The
\* same holds of temp_control_set_power waiting for the control loop's mutex
\* with portMAX_DELAY.  A task that holds a mutex runs on to its give.
SpecFair ==
  /\ InitFair
  /\ [][NextFair]_vars
  /\ SF_vars(CbTryLock(60 * MaxDuration))
  /\ SF_vars(CbSetPower)
  /\ WF_vars(CallbackAdvances)
  /\ WF_vars(TaskTick)
  /\ WF_vars(ReqReturn)
  /\ []<>(cb_pc \notin {"appointment", "clock"})

\* C40: a running countdown with the power on leads to the mode TIMEOUT with
\* the power off, however often the callback is skipped in between
C40_CountdownExpires ==
  (s_timer_running /\ s_power_on) ~> (sched_state = "TIMEOUT" /\ ~s_power_on)

\* the longest countdown has expired and switched the power off, the
\* callback is back at its start, and a request holds the scheduler's mutex
\* so that the next callback is skipped
C40_Witness ==
  /\ sched_state = "TIMEOUT"
  /\ ~s_power_on
  /\ ~s_timer_running
  /\ ticks = 60 * MaxDuration
  /\ cb_pc = "idle"
  /\ sched_mutex = "req"

====
